---- MODULE Spec2Model ----
(***************************************************************************)
(* BOLT: the build pipeline (pipeline.py, the /build command of bolt.py    *)
(* and web.py) and the turn executor (brain.py, tools.py, memory.py).      *)
(*                                                                         *)
(* Text is modelled as a sequence of one-character strings, so that the    *)
(* string operations of the code (startswith, strip, slicing, re.sub) are  *)
(* computed on the characters.                                             *)
(***************************************************************************)
EXTENDS Integers, Sequences, FiniteSets, TLC

\* ------------------------------------------------------------------ bounds
\* Thread objects run_pipeline may create in one behaviour.
MaxRuns == 2

\* The threads that handle slash commands: the CLI main loop and a web request.
Callers == {"cli", "web"}
RunIds == 1..MaxRuns

\* ------------------------------------------------------------------- paths
SEP == "/"

\* os.path.expanduser("~"): /h
HomeDir == <<"/", "h">>

\* os.path.join(home_dir, "projects", "output"): /h/p/o
DefaultOutput == HomeDir \o <<"/", "p", "/", "o">>

\* s.startswith(prefix)
StartsWith(s, prefix) ==
    /\ Len(s) >= Len(prefix)
    /\ SubSeq(s, 1, Len(prefix)) = prefix

\* The components of a path: the non-empty pieces between separators.
RECURSIVE SplitFrom(_, _, _)
SplitFrom(s, i, cur) ==
    IF i > Len(s)
    THEN (IF cur = <<>> THEN <<>> ELSE <<cur>>)
    ELSE IF s[i] = SEP
         THEN (IF cur = <<>> THEN <<>> ELSE <<cur>>) \o SplitFrom(s, i + 1, <<>>)
         ELSE SplitFrom(s, i + 1, Append(cur, s[i]))

\* "." is dropped and ".." removes the component before it (none at the root).
RECURSIVE Resolve(_, _)
Resolve(comps, acc) ==
    IF comps = <<>>
    THEN acc
    ELSE LET c == Head(comps)
         IN  Resolve(Tail(comps),
                     IF c = <<".">> THEN acc
                     ELSE IF c = <<".", ".">>
                          THEN (IF acc = <<>> THEN acc ELSE SubSeq(acc, 1, Len(acc) - 1))
                          ELSE Append(acc, c))

RECURSIVE JoinComps(_)
JoinComps(comps) ==
    IF comps = <<>> THEN <<>> ELSE <<SEP>> \o Head(comps) \o JoinComps(Tail(comps))

\* os.path.realpath of an absolute path on a file system without symbolic links.
RealPath(p) ==
    LET r == JoinComps(Resolve(SplitFrom(p, 1, <<>>), <<>>))
    IN  IF r = <<>> THEN <<SEP>> ELSE r

\* os.path.join(a, b): an absolute b replaces a.
PathJoin(a, b) ==
    IF b # <<>> /\ b[1] = SEP THEN b
    ELSE IF a[Len(a)] = SEP THEN a \o b
    ELSE a \o <<SEP>> \o b

\* stage_write, line 334: spec.get("output_dir", default_output), resolved.
\* An absent key is the empty sequence.
SpecOutputDir(spec_dir) == IF spec_dir = <<>> THEN DefaultOutput ELSE spec_dir

\* A mutation of OutputDirAllowed: the separator after home_dir is forgotten.
OutputDirAllowedNoSep(output_dir) ==
    StartsWith(output_dir, HomeDir)

\* stage_write, line 337: the negation of the refusal test.
OutputDirAllowed(output_dir) ==
    StartsWith(output_dir, HomeDir \o <<SEP>>) \/ output_dir = HomeDir

\* A mutation of PathAllowed: the separator after output_dir is forgotten.
PathAllowedNoSep(full_path, output_dir) ==
    StartsWith(full_path, output_dir)

\* stage_write, line 346: the negation of the path-traversal test.
PathAllowed(full_path, output_dir) ==
    StartsWith(full_path, output_dir \o <<SEP>>)

\* stage_write, line 344.
FullPath(output_dir, rel_path) == RealPath(PathJoin(output_dir, rel_path))

\* The output_dir values a build spec may carry (<<>>: the key is absent):
\* /h/p, the home directory itself, /hx/o (a sibling whose name starts like
\* home), and /h/p/../../t (which resolves to /t).
OutputDirChoices ==
    { <<>>,
      <<"/", "h", "/", "p">>,
      <<"/", "h">>,
      <<"/", "h", "x", "/", "o">>,
      <<"/", "h", "/", "p", "/", ".", ".", "/", ".", ".", "/", "t">> }

\* Relative paths the workers may be asked to build.
FileMain == <<"m">>                                    \* m
FileSub == <<"s", "/", "u">>                           \* s/u
FileEvil == <<".", ".", "/", ".", ".", "/", "e">>      \* ../../e
FileAbs == <<"/", "e">>                                \* /e
FileSibling == <<".", ".", "/", "p", "q", "/", "x">>   \* ../pq/x
FileSelf == <<".">>                                    \* .

\* The built-file maps stage_build may return, in insertion order.
BuiltChoices ==
    { <<>>,
      <<FileMain>>,
      <<FileEvil, FileMain>>,
      <<FileMain, FileSibling, FileSub>>,
      <<FileAbs, FileSelf>> }

\* The resolved output_dir of each of those values, and the resolved full path
\* of each of those relative paths under each of them, computed once.
ResolvedOutputDir == [d \in OutputDirChoices |-> RealPath(SpecOutputDir(d))]
ResolvedFullPath ==
    [dir \in {ResolvedOutputDir[d] : d \in OutputDirChoices} |->
        [f \in UNION {{b[i] : i \in 1..Len(b)} : b \in BuiltChoices} |-> FullPath(dir, f)]]

\* ------------------------------------------------------------------- state
VARIABLES
    lock,       \* pipeline._pipeline_lock: "free", or the thread that holds it
    active,     \* pipeline._active_pipeline: 0 is None, else the thread object
    mode,       \* brain._current_mode
    cmd,        \* the position of each command-handling thread
    runs,       \* the pipeline threads, by thread object
    nextRun,    \* thread objects created so far
    obs,        \* what the last /buildstatus saw
    store,      \* the messages table, in id order
    turn,       \* the locals of the process_message call
    summaries,  \* the summaries table, in id order
    sess,       \* the CLI main loop, its summarizer threads and its /build callback
    tasks,      \* the tasks table, in id order
    profile,    \* the user_profile table
    learn,      \* the last call of the background learning and its locals
    ctx,        \* the context assembler: its store content and its result
    san,        \* the sanitizer: its input and its output
    fs,         \* the file tools: the files written and the last result
    route,      \* the last _classify / _pick_model call: its inputs and its result
    web,        \* the web chat endpoint: its lock and its requests
    pipe,       \* one pipeline run seen by the inference server: residency and requests
    chat,       \* one chat call to the local model server
    call,       \* one built-in tool call: the size of what it reads and of its result
    wk,         \* the summarizer and heartbeat threads: position and stop event
    lt          \* the profile-learner threads inside save_fact

pvars == <<lock, active, mode, cmd, runs, nextRun, obs>>

\* The tables and threads that neither the pipeline nor the turn touches.
dvars == <<summaries, sess, tasks, profile, learn, ctx, san, fs, route, web, pipe, chat, call, wk, lt>>

\* The (success, output_dir, summary) of _run_pipeline_inner; isset is FALSE
\* until it has returned. output_dir <<>> is None. The summary of a completed
\* run is given by the number of files written and the review verdict.
NoResult ==
    [isset |-> FALSE, success |-> FALSE, output_dir |-> <<>>, summary |-> "",
     nwritten |-> 0, verdict |-> ""]

Failure(reason) ==
    [isset |-> TRUE, success |-> FALSE, output_dir |-> <<>>, summary |-> reason,
     nwritten |-> 0, verdict |-> ""]

\* A thread object and the local variables of its _pipeline_thread call.
\* spec_ok / plan_ok say that the artifact is a non-empty object; spec_dir is
\* spec["output_dir"] (<<>> when absent); phases lists the stage_* calls made;
\* callbacks counts the invocations of the callback.
NewThread ==
    [pc |-> "unborn", spec_ok |-> FALSE, spec_dir |-> <<>>, plan_ok |-> FALSE,
     built |-> <<>>, verdict |-> "", output_dir |-> <<>>, idx |-> 1,
     written |-> <<>>, phases |-> <<>>, result |-> NoResult, callbacks |-> 0,
     raised |-> FALSE]

\* process_message has not been called.
NoTurn ==
    [pc |-> "idle", stream |-> FALSE, model_key |-> "", loop_num |-> 0,
     full_text |-> <<>>, cleaned |-> <<>>, pending |-> <<>>, k |-> 1,
     acc |-> <<>>, returned |-> <<>>, inferCalls |-> 0, genCalls |-> 0,
     responses |-> <<>>, execLog |-> <<>>, messages |-> <<>>, all_results |-> <<>>]

IdleCmd == [pc |-> "idle", t |-> 0, ret |-> "none"]

\* The sessions of the CLI main loop: the one it opens at the start and the one
\* it opens at /clear.
Sessions == {1, 2}

\* A SummarizerWorker thread and the locals of its _summarize call.
NewWorker == [pc |-> "unborn", stop |-> FALSE, last_id |-> 0, nread |-> 0, readAt |-> 0]

\* The main loop has not started. answer is the last text _quick_generate
\* returned to a _summarize call.
NoSess ==
    [pc |-> "off", sid |-> 0, why |-> "", last_id |-> 0, nread |-> 0, readAt |-> 0,
     answer |-> <<>>, worker |-> [s \in Sessions |-> NewWorker],
     build |-> [pc |-> "none", sid |-> 0], builds |-> 0]

\* The task tracker has not been called.
NoLearn == [pc |-> "idle", task_line |-> "", status_line |-> "", op |-> ""]

\* The context assembler has not been called.
NoCtx ==
    [pc |-> "idle", identity_len |-> 0, summary_len |-> -1, title_len |-> -1,
     recent |-> <<>>, messages |-> <<>>, saved |-> [len |-> -1, token_estimate |-> 0]]

\* The sanitizer has not been called.
NoSan == [pc |-> "idle", text |-> <<>>, out |-> <<>>]

\* No file tool has been called.
NoFs ==
    [pc |-> "idle", cwd |-> <<>>, files |-> <<>>, tool |-> "", lines |-> <<>>,
     result |-> <<>>]

\* The router has not been asked.
NoRoute ==
    [pc |-> "idle", reply |-> <<>>, category |-> "", cloud_ok |-> FALSE,
     model_key |-> "", effective_mode |-> "", mode_context |-> ""]

\* Requests the web chat endpoint receives in one behaviour.
MaxReqs == 3

Reqs == 1..MaxReqs

\* A request that has not arrived. called tells whether process_message was
\* called for it, out what its stream worker put on the queue last.
NoReq == [pc |-> "none", called |-> FALSE, out |-> ""]

\* The web server has received no request: _chat_lock is free (0, else the
\* request that holds it) and no process_message call is live.
NoWeb == [lock |-> 0, live |-> 0, req |-> [r \in Reqs |-> NoReq]]

\* The models the inference server can hold: the roster without the cloud
\* entry, which is no model of the server.
LocalModels == {"router", "companion", "fast_code", "worker_light", "worker_heavy",
                "beast"}

\* A worker thread of stage_build that has not been created: its position in
\* the for loop of _run_worker is the number of tasks it has generated.
NoWorker == [pc |-> "new", pos |-> 0]

\* No GET /api/ps was made in the last step of the pipeline.
NoPs == [called |-> FALSE, ok |-> FALSE, models |-> <<>>]

\* Profile-learner threads alive at once.
MaxLearners == 2
Learners == 1..MaxLearners

\* A learner thread that was not started.
NoLearner ==
    [pc |-> "none", category |-> "", key |-> "", value |-> "", confidence |-> 0,
     existing |-> -1, before |-> -1]

\* A worker thread that was not constructed.
NoDaemon == [pc |-> "none", stop_event |-> FALSE, left |-> 0, cycles |-> 0]

\* No tool call is in progress.
NoCall ==
    [pc |-> "idle", name |-> "", input |-> [lead |-> 0, body |-> 0, trail |-> 0],
     result |-> 0, marked |-> FALSE, handed |-> 0]

\* No chat call to the local backend is in progress.
NoChat ==
    [pc |-> "idle", stream |-> FALSE, messages |-> <<>>, clean |-> <<>>, posts |-> <<>>,
     status |-> 0, retry |-> "", out |-> <<>>]

\* No pipeline has been launched. loaded is the set of resident models of the
\* server; last is the list of requests of the last pipeline step, in order.
NoPipe ==
    [pc |-> "idle", loaded |-> {}, last |-> <<>>, ps |-> NoPs, phase |-> "",
     spec_ok |-> FALSE, plan_ok |-> FALSE,
     dir_ok |-> FALSE, heavy |-> <<>>, light |-> <<>>,
     worker |-> [k \in {"worker_heavy", "worker_light"} |-> NoWorker],
     results |-> {}, errors |-> FALSE, review |-> "", verdict |-> "", written |-> 0,
     restored |-> FALSE, result |-> "", reported |-> "", raised |-> FALSE]

\* A mutation of NextId: the id of the last row is given again.
NextIdReused(st) == IF st = <<>> THEN 1 ELSE st[Len(st)].id

\* INTEGER PRIMARY KEY AUTOINCREMENT: one more than the largest id ever given
\* (no row of the table is ever deleted, so that is the id of the last row).
NextId(st) == IF st = <<>> THEN 1 ELSE st[Len(st)].id + 1

\* memory.save_message: the row gets the next id of the AUTOINCREMENT column.
SaveMessage(st, session_id, role, content, by) ==
    Append(st, [id |-> NextId(st), session_id |-> session_id, role |-> role,
                content |-> content, by |-> by])

\* A thread object that is the target of a launch and has not released the slot.
Live(r) == runs[r].pc \notin {"unborn", "done"}

\* A pipeline thread that has been started and is inside _pipeline_thread.
Executing(r) == runs[r].pc \notin {"unborn", "created", "done"}

InFlight == {c \in Callers : cmd[c].pc # "idle"}

PipelineInit ==
    /\ lock = "free"
    /\ active = 0
    /\ mode \in {"companion", "code"}
    /\ cmd = [c \in Callers |-> IdleCmd]
    /\ runs = [r \in RunIds |-> NewThread]
    /\ nextRun = 0
    /\ obs = [seen |-> FALSE, val |-> FALSE, live |-> FALSE]
    /\ store = <<>>
    /\ turn = NoTurn
    /\ summaries = <<>>
    /\ sess = NoSess
    /\ tasks = <<>>
    /\ profile = <<>>
    /\ learn = NoLearn
    /\ ctx = NoCtx
    /\ san = NoSan
    /\ fs = NoFs
    /\ lt = [t \in Learners |-> NoLearner]
    /\ wk = [d \in {"summarizer", "heartbeat"} |-> NoDaemon]
    /\ call = NoCall
    /\ chat = NoChat
    /\ pipe = NoPipe
    /\ web = NoWeb
    /\ route = NoRoute

\* --------------------------------------------------- /build and run_pipeline
\* is_pipeline_running: the slot is read with the lock held.
IsPipelineRunning == active # 0

\* A mutation of RunPipelineBusy: the slot is never found taken.
RunPipelineBusyNever(slot) == FALSE

\* run_pipeline, line 443: the test made with the lock held.
RunPipelineBusy(slot) == slot # 0

\* /build, first step: is_pipeline_running() says whether to go on. The
\* conversation is not empty. A handler starts only while thread objects are left.
BuildCheck(c) ==
    /\ cmd[c].pc = "idle"
    /\ lock = "free"
    /\ nextRun + Cardinality(InFlight) < MaxRuns
    /\ IF IsPipelineRunning
       THEN cmd' = [cmd EXCEPT ![c] = IdleCmd]
       ELSE cmd' = [cmd EXCEPT ![c] = [pc |-> "set_mode", t |-> 0, ret |-> "none"]]
    /\ UNCHANGED <<lock, active, mode, runs, nextRun, obs, store, turn, dvars>>

\* /build: brain.set_mode("build"), then the call of run_pipeline.
BuildSetMode(c) ==
    /\ cmd[c].pc = "set_mode"
    /\ mode' = "build"
    /\ cmd' = [cmd EXCEPT ![c].pc = "rp_enter"]
    /\ UNCHANGED <<lock, active, runs, nextRun, obs, store, turn, dvars>>

\* run_pipeline: the lock is taken and the slot tested; a taken slot returns False.
RunPipelineEnter(c) ==
    /\ cmd[c].pc = "rp_enter"
    /\ lock = "free"
    /\ IF RunPipelineBusy(active)
       THEN /\ cmd' = [cmd EXCEPT ![c] = [pc |-> "idle", t |-> 0, ret |-> "false"]]
            /\ lock' = "free"
       ELSE /\ cmd' = [cmd EXCEPT ![c].pc = "rp_create"]
            /\ lock' = c
    /\ UNCHANGED <<active, mode, runs, nextRun, obs, store, turn, dvars>>

\* run_pipeline: the router is warmed, the thread object is created and put in
\* the slot, and the lock is released.
RunPipelineCreate(c) ==
    /\ cmd[c].pc = "rp_create"
    /\ lock = c
    /\ nextRun' = nextRun + 1
    /\ runs' = [runs EXCEPT ![nextRun + 1] = [NewThread EXCEPT !.pc = "created"]]
    /\ active' = nextRun + 1
    /\ lock' = "free"
    /\ cmd' = [cmd EXCEPT ![c] = [pc |-> "rp_start", t |-> nextRun + 1, ret |-> "none"]]
    /\ UNCHANGED <<mode, obs, store, turn, dvars>>

\* run_pipeline: t.start() and return True.
RunPipelineStart(c) ==
    /\ cmd[c].pc = "rp_start"
    /\ runs' = [runs EXCEPT ![cmd[c].t].pc = "spec"]
    /\ cmd' = [cmd EXCEPT ![c] = [pc |-> "idle", t |-> 0, ret |-> "true"]]
    /\ UNCHANGED <<lock, active, mode, nextRun, obs, store, turn, dvars>>

\* /buildstatus: is_pipeline_running() once more.
BuildStatus(c) ==
    /\ cmd[c].pc = "idle"
    /\ lock = "free"
    /\ obs' = [seen |-> TRUE, val |-> IsPipelineRunning,
               live |-> \E r \in RunIds : Live(r)]
    /\ UNCHANGED <<lock, active, mode, cmd, runs, nextRun, store, turn, dvars>>

\* /companion and /code.
SetModeCmd(c, m) ==
    /\ cmd[c].pc = "idle"
    /\ mode' = m
    /\ UNCHANGED <<lock, active, cmd, runs, nextRun, obs, store, turn, dvars>>

\* ------------------------------------------------------- the pipeline thread
Phases == <<"spec", "architect", "build", "review", "write">>

\* A mutation of PhaseAfter: the review comes before the build.
PhaseAfterSwapped(p) ==
    CASE p = "spec" -> "architect"
      [] p = "architect" -> "review"
      [] p = "review" -> "build"
      [] p = "build" -> "write"

\* _run_pipeline_inner: the stage called after stage p.
PhaseAfter(p) ==
    CASE p = "spec" -> "architect"
      [] p = "architect" -> "build"
      [] p = "build" -> "review"
      [] p = "review" -> "write"

\* _run_pipeline_inner, lines 386, 391, 396: the summary of a short circuit.
Reason(p) ==
    CASE p = "spec" -> "Failed to generate build spec."
      [] p = "architect" -> "Architect failed to produce a plan."
      [] p = "build" -> "Workers produced no files."

\* A mutation of AfterStage: the artifact is not tested.
AfterStageUnchecked(th, p, ok) ==
    [th EXCEPT !.pc = PhaseAfter(p), !.phases = Append(th.phases, p)]

\* _run_pipeline_inner, lines 384-396: stage p has returned its artifact; an
\* empty one (None, {}) returns (False, None, reason) to _pipeline_thread.
AfterStage(th, p, ok) ==
    IF ok
    THEN [th EXCEPT !.pc = PhaseAfter(p), !.phases = Append(th.phases, p)]
    ELSE [th EXCEPT !.pc = "callback", !.phases = Append(th.phases, p),
                    !.result = Failure(Reason(p))]

\* A mutation of Raised: the exception ends the thread past its finally clause.
RaisedPastFinally(th, p) ==
    [th EXCEPT !.pc = "done", !.phases = Append(th.phases, p), !.raised = TRUE]

\* An exception leaves _run_pipeline_inner: the try of _pipeline_thread has no
\* except clause, so control goes to its finally.
Raised(th, p) ==
    [th EXCEPT !.pc = "finally", !.phases = Append(th.phases, p), !.raised = TRUE]

\* stage_spec: no JSON object or an empty one (None); an object whose "files" is
\* not a list (line 182 raises); or a spec, with or without output_dir.
StageSpec(r) ==
    /\ runs[r].pc = "spec"
    /\ \/ runs' = [runs EXCEPT ![r] = AfterStage(runs[r], "spec", FALSE)]
       \/ runs' = [runs EXCEPT ![r] = Raised(runs[r], "spec")]
       \/ \E d \in OutputDirChoices :
             runs' = [runs EXCEPT ![r] =
                        AfterStage([runs[r] EXCEPT !.spec_ok = TRUE, !.spec_dir = d],
                                   "spec", TRUE)]
    /\ UNCHANGED <<lock, active, mode, cmd, nextRun, obs, store, turn, dvars>>

\* stage_architect: None; a plan whose worker entry is not an object (line 206
\* raises); or a plan.
StageArchitect(r) ==
    /\ runs[r].pc = "architect"
    /\ \/ runs' = [runs EXCEPT ![r] = AfterStage(runs[r], "architect", FALSE)]
       \/ runs' = [runs EXCEPT ![r] = Raised(runs[r], "architect")]
       \/ runs' = [runs EXCEPT ![r] =
                     AfterStage([runs[r] EXCEPT !.plan_ok = TRUE], "architect", TRUE)]
    /\ UNCHANGED <<lock, active, mode, cmd, nextRun, obs, store, turn, dvars>>

\* stage_build: the map the two workers filled (empty when they built
\* nothing), or an exception of the profile lookup of line 270.
StageBuild(r) ==
    /\ runs[r].pc = "build"
    /\ \/ runs' = [runs EXCEPT ![r] = Raised(runs[r], "build")]
       \/ \E b \in BuiltChoices :
             runs' = [runs EXCEPT ![r] =
                        AfterStage([runs[r] EXCEPT !.built = b], "build", b # <<>>)]
    /\ UNCHANGED <<lock, active, mode, cmd, nextRun, obs, store, turn, dvars>>

\* stage_review: a parsed verdict, an unparseable review (taken as pass, line
\* 315), or issues that are not objects (line 324 raises). Never a short circuit.
StageReview(r) ==
    /\ runs[r].pc = "review"
    /\ \/ runs' = [runs EXCEPT ![r] = Raised(runs[r], "review")]
       \/ \E v \in {"pass", "fix_needed"} :
             runs' = [runs EXCEPT ![r] =
                        [runs[r] EXCEPT !.verdict = v, !.pc = PhaseAfter("review"),
                                        !.phases = Append(runs[r].phases, "review")]]
    /\ UNCHANGED <<lock, active, mode, cmd, nextRun, obs, store, turn, dvars>>

\* stage_write, lines 331-342: output_dir is resolved and refused outside home
\* (return []); else it is created, which the file system may refuse (OSError).
WriteBegin(r) ==
    /\ runs[r].pc = "write"
    /\ LET dir == ResolvedOutputDir[runs[r].spec_dir]
           th == [runs[r] EXCEPT !.output_dir = dir,
                                 !.phases = Append(runs[r].phases, "write")]
       IN  IF ~OutputDirAllowed(dir)
           THEN runs' = [runs EXCEPT ![r] = [th EXCEPT !.pc = "summary"]]
           ELSE \/ runs' = [runs EXCEPT ![r] = [th EXCEPT !.pc = "write_loop", !.idx = 1]]
                \/ runs' = [runs EXCEPT ![r] = [th EXCEPT !.pc = "finally", !.raised = TRUE]]
    /\ UNCHANGED <<lock, active, mode, cmd, nextRun, obs, store, turn, dvars>>

\* stage_write, lines 343-353: one iteration; a path that does not resolve
\* under output_dir is skipped, another one is written unless open fails.
WriteFile(r) ==
    /\ runs[r].pc = "write_loop"
    /\ runs[r].idx <= Len(runs[r].built)
    /\ LET full == ResolvedFullPath[runs[r].output_dir][runs[r].built[runs[r].idx]]
           next == [runs[r] EXCEPT !.idx = runs[r].idx + 1]
       IN  IF ~PathAllowed(full, runs[r].output_dir)
           THEN runs' = [runs EXCEPT ![r] = next]
           ELSE \/ runs' = [runs EXCEPT ![r] =
                              [next EXCEPT !.written = Append(runs[r].written, full)]]
                \/ runs' = [runs EXCEPT ![r] =
                              [runs[r] EXCEPT !.pc = "finally", !.raised = TRUE]]
    /\ UNCHANGED <<lock, active, mode, cmd, nextRun, obs, store, turn, dvars>>

\* stage_write, lines 355-362: the loop is over; chat models are restored.
WriteEnd(r) ==
    /\ runs[r].pc = "write_loop"
    /\ runs[r].idx > Len(runs[r].built)
    /\ runs' = [runs EXCEPT ![r].pc = "summary"]
    /\ UNCHANGED <<lock, active, mode, cmd, nextRun, obs, store, turn, dvars>>

\* _run_pipeline_inner, lines 404-420: (True, output_dir, summary), where
\* output_dir is the spec's value as written, not resolved.
Summary(r) ==
    /\ runs[r].pc = "summary"
    /\ runs' = [runs EXCEPT ![r] =
                  [runs[r] EXCEPT !.pc = "callback",
                     !.result = [isset |-> TRUE, success |-> TRUE,
                                 output_dir |-> SpecOutputDir(runs[r].spec_dir),
                                 summary |-> "Built",
                                 nwritten |-> Len(runs[r].written),
                                 verdict |-> runs[r].verdict]]]
    /\ UNCHANGED <<lock, active, mode, cmd, nextRun, obs, store, turn, dvars>>

\* _pipeline_thread, lines 372-373, with _on_done of /build as the callback: on
\* success the summary is saved, which the store may refuse by raising; then the
\* mode is set to companion.
Callback(r) ==
    /\ runs[r].pc = "callback"
    /\ \/ /\ runs[r].result.success
          /\ store' = SaveMessage(store, 1, "assistant", "Build complete.", "pipeline")
          /\ mode' = "companion"
          /\ runs' = [runs EXCEPT ![r].pc = "finally", ![r].callbacks = @ + 1]
       \/ /\ runs[r].result.success
          /\ runs' = [runs EXCEPT ![r].pc = "finally", ![r].callbacks = @ + 1,
                                  ![r].raised = TRUE]
          /\ UNCHANGED <<mode, store>>
       \/ /\ ~runs[r].result.success
          /\ mode' = "companion"
          /\ runs' = [runs EXCEPT ![r].pc = "finally", ![r].callbacks = @ + 1]
          /\ UNCHANGED store
    /\ UNCHANGED <<lock, active, cmd, nextRun, obs, turn, dvars>>

\* A mutation of SlotAfterThread: the slot is left as it is.
SlotAfterThreadKept(slot) == slot

\* _pipeline_thread, lines 374-376: the finally clause empties the slot.
SlotAfterThread(slot) == 0

\* _pipeline_thread ends: the slot is emptied with the lock held, and the
\* locals of the thread are gone (callbacks and raised are kept for the record).
Finally(r) ==
    /\ runs[r].pc = "finally"
    /\ lock = "free"
    /\ active' = SlotAfterThread(active)
    /\ runs' = [runs EXCEPT ![r] =
                  [NewThread EXCEPT !.pc = "done", !.callbacks = runs[r].callbacks,
                                    !.raised = runs[r].raised]]
    /\ UNCHANGED <<lock, mode, cmd, nextRun, obs, store, turn, dvars>>

\* ------------------------------------------------------- the turn executor
\* config.MAX_TOOL_LOOPS
MAX_TOOL_LOOPS == 25

\* brain.py line 275: result[:500]
ResultCap == 500

\* Iterations of the tool loop in which the model may answer anything; in the
\* later ones it answers with one plain tool call or with a final text.
MaxVaried == 2

\* The pieces of text the model writes: the opening of a tool tag, the rest of
\* it for tool a or b, the closing tag, blanks, and words.
TOOL == "<tool "
NameA == "name=\"a\">"
NameB == "name=\"b\">"
END == "</tool>"
SP == " "
NL == "\n"
NameTokens == {NameA, NameB}
Blank == {SP, NL}

ToolName(tok) == IF tok = NameA THEN "a" ELSE "b"

\* The place of the first closing tag at or after j (0: none): the lazy (.*?)</tool>.
RECURSIVE FirstEnd(_, _)
FirstEnd(text, j) ==
    IF j > Len(text) THEN 0
    ELSE IF text[j] = END THEN j
    ELSE FirstEnd(text, j + 1)

\* The pattern of parse_tool_calls tried at place i: where the match ends (0: no match).
MatchAt(text, i) ==
    IF i + 1 <= Len(text) /\ text[i] = TOOL /\ text[i + 1] \in NameTokens
    THEN FirstEnd(text, i + 2)
    ELSE 0

\* re.findall: the matches from left to right, none overlapping another.
RECURSIVE FindAll(_, _)
FindAll(text, i) ==
    IF i > Len(text) THEN <<>>
    ELSE LET e == MatchAt(text, i)
         IN  IF e = 0
             THEN FindAll(text, i + 1)
             ELSE <<[name |-> ToolName(text[i + 1]), args |-> SubSeq(text, i + 2, e - 1)]>>
                      \o FindAll(text, e + 1)

\* re.sub(pattern, "", text): the same matches removed, in one pass.
RECURSIVE SubAll(_, _)
SubAll(text, i) ==
    IF i > Len(text) THEN <<>>
    ELSE LET e == MatchAt(text, i)
         IN  IF e = 0
             THEN <<text[i]>> \o SubAll(text, i + 1)
             ELSE SubAll(text, e + 1)

\* str.strip()
RECURSIVE LStrip(_)
LStrip(text) ==
    IF text # <<>> /\ Head(text) \in Blank THEN LStrip(Tail(text)) ELSE text

RECURSIVE RStrip(_)
RStrip(text) ==
    IF text # <<>> /\ text[Len(text)] \in Blank
    THEN RStrip(SubSeq(text, 1, Len(text) - 1))
    ELSE text

Strip(text) == RStrip(LStrip(text))

\* tools.parse_tool_calls: (matches, cleaned)
ParseToolCalls(text) ==
    [calls |-> FindAll(text, 1), cleaned |-> Strip(SubAll(text, 1))]

\* A mutation of Accumulate: the raw response is kept, markup included.
AccumulateRaw(acc, cleaned, full) ==
    IF Strip(cleaned) # <<>> THEN acc \o full \o <<NL>> ELSE acc

\* _generate_with_tools, lines 277-278.
Accumulate(acc, cleaned, full) ==
    IF Strip(cleaned) # <<>> THEN acc \o cleaned \o <<NL>> ELSE acc

\* _generate_with_tools, lines 264 and 283.
ReturnedText(acc, full) == IF acc # <<>> THEN acc \o full ELSE full

\* A mutation of LoopContinues: one iteration too many.
LoopContinuesOneMore(n) == n <= MAX_TOOL_LOOPS

\* _generate_with_tools, line 234: for loop_num in range(MAX_TOOL_LOOPS).
LoopContinues(n) == n < MAX_TOOL_LOOPS

Categories == {"cloud", "code_beast", "code_complex", "code_simple", "companion"}

\* The values of brain._current_mode: set_mode is called with these.
Modes == {"companion", "code", "build"}

\* brain._pick_mode_for_category
PickModeForCategory(category) == IF category = "companion" THEN "companion" ELSE "code"

\* identity.build_identity, lines 285-290: the briefing of a mode.
ModeContext(m) ==
    CASE m = "companion" -> "COMPANION_CONTEXT"
      [] m = "build" -> "BUILD_CONTEXT"
      [] m = "code" -> "CODE_CONTEXT"
      [] OTHER -> "COMPANION_CONTEXT"

\* A mutation of PickModel: the companion mode decides before the category.
PickModelModeFirst(m, category, cloud_ok) ==
    IF m = "companion" THEN "companion"
    ELSE IF category \in {"cloud", "code_beast"}
         THEN (IF cloud_ok THEN "cloud"
               ELSE IF category = "code_beast" THEN "beast" ELSE "worker_heavy")
    ELSE IF category = "companion" THEN "companion"
    ELSE IF category = "code_simple" THEN "fast_code"
    ELSE IF category = "code_complex" THEN "worker_heavy"
    ELSE "companion"

\* A mutation of PickModel: simple code goes to the light worker.
PickModelLight(m, category, cloud_ok) ==
    IF m = "companion" /\ category = "companion" THEN "companion"
    ELSE IF category \in {"cloud", "code_beast"}
         THEN (IF cloud_ok THEN "cloud"
               ELSE IF category = "code_beast" THEN "beast" ELSE "worker_heavy")
    ELSE IF category = "companion" THEN "companion"
    ELSE IF category = "code_simple" THEN "worker_light"
    ELSE IF category = "code_complex" THEN "worker_heavy"
    ELSE "companion"

\* A mutation of PickModel: the two offline fallbacks are exchanged.
PickModelOfflineSwapped(m, category, cloud_ok) ==
    IF m = "companion" /\ category = "companion" THEN "companion"
    ELSE IF category \in {"cloud", "code_beast"}
         THEN (IF cloud_ok THEN "cloud"
               ELSE IF category = "code_beast" THEN "worker_heavy" ELSE "beast")
    ELSE IF category = "companion" THEN "companion"
    ELSE IF category = "code_simple" THEN "fast_code"
    ELSE IF category = "code_complex" THEN "worker_heavy"
    ELSE "companion"

\* brain._pick_model
PickModel(m, category, cloud_ok) ==
    IF m = "companion" /\ category = "companion" THEN "companion"
    ELSE IF category \in {"cloud", "code_beast"}
         THEN (IF cloud_ok THEN "cloud"
               ELSE IF category = "code_beast" THEN "beast" ELSE "worker_heavy")
    ELSE IF category = "companion" THEN "companion"
    ELSE IF category = "code_simple" THEN "fast_code"
    ELSE IF category = "code_complex" THEN "worker_heavy"
    ELSE "companion"

\* What the model may answer.
RespFinal == <<"hi">>
RespCall == <<TOOL, NameA, "1", END>>
RespNested == <<TOOL, TOOL, NameA, "1", END, NameB, "2", END>>
RespTwoCalls == <<TOOL, NameA, "1", END, "and", TOOL, NameB, "2", END, SP>>
RespUnclosed == <<"ok", TOOL, NameA, "1">>

Responses == {RespFinal, RespCall, RespNested, RespTwoCalls, RespUnclosed}

ResponsesAt(n) == IF n < MaxVaried THEN Responses ELSE {RespFinal, RespCall}

\* The tools registered: a is, b is not.
Registered == {"a"}

\* What the handler of a registered tool may do: return a short or a long
\* text, or raise.
HandlerOutcomes == {[kind |-> "ok", len |-> 3], [kind |-> "ok", len |-> ResultCap + 1],
                    [kind |-> "raise", len |-> 0]}

OutcomesAt(n) == IF n < MaxVaried THEN HandlerOutcomes ELSE {[kind |-> "ok", len |-> 3]}

\* No handler was called.
NotCalled == [kind |-> "none", len |-> 0]

\* A mutation of ExecuteTool: the registry is not consulted.
ExecuteToolAnyName(name, outcome) ==
    IF outcome.kind = "raise"
    THEN [ok |-> FALSE, head |-> "Tool error: ", len |-> 16, called |-> TRUE]
    ELSE [ok |-> TRUE, head |-> "", len |-> outcome.len, called |-> TRUE]

\* tools.execute_tool: (success, result), the result given by its head and
\* length; called tells whether the handler was invoked.
ExecuteTool(name, outcome) ==
    IF name \notin Registered
    THEN [ok |-> FALSE, head |-> "Unknown tool: ", len |-> 15, called |-> FALSE]
    ELSE IF outcome.kind = "raise"
         THEN [ok |-> FALSE, head |-> "Tool error: ", len |-> 16, called |-> TRUE]
         ELSE [ok |-> TRUE, head |-> "", len |-> outcome.len, called |-> TRUE]

\* _build_context_with_identity: the message list the tool loop starts from.
Context == <<[role |-> "system", content |-> <<"context">>]>>

\* tools.format_tool_result: the name and the whole result inside a
\* tool_result element.
FormatToolResult(name, result) ==
    [tag |-> "tool_result", name |-> name, head |-> result.head, len |-> result.len]

\* A mutation of JoinResults: the last result comes first.
RECURSIVE JoinResultsReversed(_)
JoinResultsReversed(all_results) ==
    IF all_results = <<>> THEN <<>>
    ELSE JoinResultsReversed(Tail(all_results)) \o <<Head(all_results)>>

\* "\n".join(all_results)
JoinResults(all_results) == all_results

\* brain.py lines 280-281: the assistant's raw reply and the synthetic user
\* message "Tool results:\n" followed by the joined results.
LoopMessages(full_text, all_results) ==
    <<[role |-> "assistant", content |-> full_text],
      [role |-> "user",
       content |-> [head |-> "Tool results:", results |-> JoinResults(all_results)]]>>

\* A mutation of FirstChars: the whole result is saved.
FirstCharsAll(result) == [head |-> result.head, len |-> result.len]

\* brain.py line 275: result[:500]
FirstChars(result) ==
    [head |-> result.head, len |-> IF result.len < ResultCap THEN result.len ELSE ResultCap]

\* The module state before the first turn; the mode is brain.py's initial one.
TurnInit ==
    /\ lock = "free"
    /\ active = 0
    /\ mode = "companion"
    /\ cmd = [c \in Callers |-> IdleCmd]
    /\ runs = [r \in RunIds |-> NewThread]
    /\ nextRun = 0
    /\ obs = [seen |-> FALSE, val |-> FALSE, live |-> FALSE]
    /\ store = <<>>
    /\ turn = NoTurn
    /\ summaries = <<>>
    /\ sess = NoSess
    /\ tasks = <<>>
    /\ profile = <<>>
    /\ learn = NoLearn
    /\ ctx = NoCtx
    /\ san = NoSan
    /\ fs = NoFs
    /\ lt = [t \in Learners |-> NoLearner]
    /\ wk = [d \in {"summarizer", "heartbeat"} |-> NoDaemon]
    /\ call = NoCall
    /\ chat = NoChat
    /\ pipe = NoPipe
    /\ web = NoWeb
    /\ route = NoRoute

\* process_message, line 153: the user message is saved first.
TurnBegin ==
    /\ UNCHANGED <<pvars, dvars>>
    /\ turn.pc = "idle"
    /\ \E st \in BOOLEAN : turn' = [turn EXCEPT !.pc = "classify", !.stream = st]
    /\ store' = SaveMessage(store, 1, "user", <<"u">>, "turn")

\* process_message, lines 156-162: one call of the router model, then the
\* model is picked and the context is built.
Classify ==
    /\ UNCHANGED <<pvars, dvars>>
    /\ turn.pc = "classify"
    /\ \E category \in Categories, cloud_ok \in BOOLEAN :
          turn' = [turn EXCEPT !.pc = "generate",
                               !.model_key = PickModel(mode, category, cloud_ok),
                               !.messages = Context,
                               !.inferCalls = @ + 1]
    /\ UNCHANGED store

\* _generate_with_tools, lines 234-264: one inference call and the parse of
\* its text; without a tool call the text is returned. The first local call
\* with a stream callback reads the reply line by line (lines 252-254, 88): a
\* connection lost there raises out of process_message.
Generate ==
    /\ UNCHANGED <<pvars, dvars>>
    /\ turn.pc = "generate"
    /\ \/ \E full \in ResponsesAt(turn.loop_num) :
             LET p == ParseToolCalls(full)
                 t == [turn EXCEPT !.full_text = full, !.cleaned = p.cleaned,
                                   !.inferCalls = @ + 1, !.genCalls = @ + 1]
             IN  IF p.calls = <<>>
                 THEN turn' = [t EXCEPT !.pc = "save",
                                        !.returned = ReturnedText(turn.acc, full)]
                 ELSE turn' = [t EXCEPT !.pc = "exec", !.pending = p.calls, !.k = 1,
                                        !.responses = Append(@, full)]
       \/ /\ turn.stream /\ turn.model_key # "cloud" /\ turn.loop_num = 0
          /\ turn' = [turn EXCEPT !.pc = "raised", !.inferCalls = @ + 1,
                                  !.genCalls = @ + 1]
    /\ UNCHANGED store

\* _generate_with_tools, lines 268-275: the next tool call is executed and its
\* two rows are saved.
ExecTool ==
    /\ UNCHANGED <<pvars, dvars>>
    /\ turn.pc = "exec"
    /\ turn.k <= Len(turn.pending)
    /\ \E o \in OutcomesAt(turn.loop_num) :
          LET name == turn.pending[turn.k].name
              res == ExecuteTool(name, o)
          IN  /\ store' = SaveMessage(
                              SaveMessage(store, 1, "tool", <<"Called ", name>>, "turn"),
                              1, "tool_result", FirstChars(res), "turn")
              /\ turn' = [turn EXCEPT !.k = @ + 1,
                                      !.all_results = Append(@, FormatToolResult(name, res)),
                                      !.execLog = Append(@, [name |-> name, result |-> res,
                                                             outcome |-> IF res.called THEN o
                                                                         ELSE NotCalled])]

\* _generate_with_tools, lines 277-283: the stripped text is accumulated and
\* the loop goes on, or ends after MAX_TOOL_LOOPS iterations.
EndIteration ==
    /\ UNCHANGED <<pvars, dvars>>
    /\ turn.pc = "exec"
    /\ turn.k > Len(turn.pending)
    /\ LET acc == Accumulate(turn.acc, turn.cleaned, turn.full_text)
           n == turn.loop_num + 1
       IN  turn' = IF LoopContinues(n)
                   THEN [turn EXCEPT !.pc = "generate", !.acc = acc, !.loop_num = n,
                                     !.pending = <<>>, !.k = 1,
                                     !.messages = @ \o LoopMessages(turn.full_text,
                                                                    turn.all_results),
                                     !.all_results = <<>>]
                   ELSE [turn EXCEPT !.pc = "save", !.acc = acc, !.loop_num = n,
                                     !.pending = <<>>, !.k = 1,
                                     !.messages = @ \o LoopMessages(turn.full_text,
                                                                    turn.all_results),
                                     !.all_results = <<>>,
                                     !.returned = ReturnedText(acc, turn.full_text)]
    /\ UNCHANGED store

\* process_message, lines 170-173: the response is saved and returned.
SaveAssistant ==
    /\ UNCHANGED <<pvars, dvars>>
    /\ turn.pc = "save"
    /\ store' = SaveMessage(store, 1, "assistant", turn.returned, "turn")
    /\ turn' = [turn EXCEPT !.pc = "returned"]

TurnNext ==
    \/ TurnBegin
    \/ Classify
    \/ Generate
    \/ ExecTool
    \/ EndIteration
    \/ SaveAssistant


\* ------------------------------------- the main loop and the summarizer
\* config.SUMMARY_INTERVAL
SUMMARY_INTERVAL == 20

\* Rows the messages table may hold in one behaviour.
MaxMsgs == 20

\* /build commands issued in one behaviour.
MaxBuilds == 1

\* What the main loop, the summarizer and the /build callback leave alone.
notSess == <<pvars, turn, tasks, profile, learn, ctx, san, fs, route, web, pipe, chat, call, wk, lt>>

\* memory.count_unsummarized, get_unsummarized_messages: covers_up_to of the
\* session's summary with the largest id, 0 without one.
RECURSIVE AfterId(_, _)
AfterId(sm, s) ==
    IF sm = <<>> THEN 0
    ELSE IF sm[Len(sm)].session_id = s THEN sm[Len(sm)].covers_up_to
    ELSE AfterId(SubSeq(sm, 1, Len(sm) - 1), s)

\* memory.get_unsummarized_messages: the session's rows beyond that id, by id.
GetUnsummarizedMessages(st, sm, s) ==
    SelectSeq(st, LAMBDA m : m.session_id = s /\ m.id > AfterId(sm, s))

\* memory.count_unsummarized
CountUnsummarized(st, sm, s) == Len(GetUnsummarizedMessages(st, sm, s))

\* memory.save_summary; by, nread and readAt record the pass that saved the
\* row: who ran it, how many messages it had read, and how many rows the
\* messages table held when it read them.
SaveSummary(sm, s, summary_text, covers_up_to, by, nread, readAt) ==
    Append(sm, [id |-> Len(sm) + 1, session_id |-> s, summary |-> summary_text,
                covers_up_to |-> covers_up_to,
                by |-> by, nread |-> nread, readAt |-> readAt])

\* What workers._quick_generate may return: nothing (the call failed), blank
\* text, or a summary.
Answers == {<<>>, <<NL>>, <<SP, "s", NL>>}

\* _summarize, lines 72-75: a non-blank answer is saved, stripped, with the id
\* of the last message read.
SummarizeSave(sm, s, answer, last_id, by, nread, readAt) ==
    IF Strip(answer) # <<>>
    THEN SaveSummary(sm, s, Strip(answer), last_id, by, nread, readAt)
    ELSE sm

\* A mutation of LoopThreshold: the loop summarizes whatever is there.
LoopThresholdNone(count) == count >= 1

\* SummarizerWorker.run, line 48.
LoopThreshold(count) == count >= SUMMARY_INTERVAL

\* A mutation of LastId: the id of the first message read.
LastIdFirst(msgs) == msgs[1].id

\* SummarizerWorker._summarize, line 73: msgs[-1]["id"]
LastId(msgs) == msgs[Len(msgs)].id

\* bolt.main, lines 359-371: the session is opened and its summarizer started.
SessInit ==
    /\ lock = "free"
    /\ active = 0
    /\ mode = "companion"
    /\ cmd = [c \in Callers |-> IdleCmd]
    /\ runs = [r \in RunIds |-> NewThread]
    /\ nextRun = 0
    /\ obs = [seen |-> FALSE, val |-> FALSE, live |-> FALSE]
    /\ store = <<>>
    /\ turn = NoTurn
    /\ summaries = <<>>
    /\ sess = [NoSess EXCEPT !.pc = "prompt", !.sid = 1, !.worker[1].pc = "wait"]
    /\ tasks = <<>>
    /\ profile = <<>>
    /\ learn = NoLearn
    /\ ctx = NoCtx
    /\ san = NoSan
    /\ fs = NoFs
    /\ lt = [t \in Learners |-> NoLearner]
    /\ wk = [d \in {"summarizer", "heartbeat"} |-> NoDaemon]
    /\ call = NoCall
    /\ chat = NoChat
    /\ pipe = NoPipe
    /\ web = NoWeb
    /\ route = NoRoute

\* bolt.main, line 414, brain.process_message, line 153: the user row is saved.
ChatUser ==
    /\ sess.pc = "prompt"
    /\ Len(store) < MaxMsgs
    /\ store' = SaveMessage(store, sess.sid, "user", <<"u">>, "turn")
    /\ sess' = [sess EXCEPT !.pc = "chat"]
    /\ UNCHANGED <<summaries, notSess>>

\* brain.process_message, line 170: the assistant row is saved; the call
\* returns to the main loop.
ChatAssistant ==
    /\ sess.pc = "chat"
    /\ Len(store) < MaxMsgs
    /\ store' = SaveMessage(store, sess.sid, "assistant", <<"hi">>, "turn")
    /\ sess' = [sess EXCEPT !.pc = "prompt"]
    /\ UNCHANGED <<summaries, notSess>>

\* /build, bolt.py lines 255-278: the pipeline is launched with a callback
\* that holds the session of the command.
BuildCmd ==
    /\ sess.pc = "prompt"
    /\ sess.build.pc # "running"
    /\ sess.builds < MaxBuilds
    /\ store # <<>>
    /\ sess' = [sess EXCEPT !.build = [pc |-> "running", sid |-> sess.sid],
                            !.builds = @ + 1]
    /\ UNCHANGED <<store, summaries, notSess>>

\* _on_done, bolt.py lines 272-275, on the pipeline thread: a successful run
\* saves its summary as an assistant row of that session.
OnDone ==
    /\ sess.build.pc = "running"
    /\ \/ /\ Len(store) < MaxMsgs
          /\ store' = SaveMessage(store, sess.build.sid, "assistant",
                                  "Build complete.", "pipeline")
       \/ UNCHANGED store
    /\ sess' = [sess EXCEPT !.build.pc = "done"]
    /\ UNCHANGED <<summaries, notSess>>

\* SummarizerWorker.run, lines 45-52: the stop event is tested, then the
\* unsummarized messages are counted; _summarize is called at the threshold,
\* else the thread waits.
WorkerCount(s) ==
    /\ sess.worker[s].pc = "wait"
    /\ IF sess.worker[s].stop
       THEN sess' = [sess EXCEPT !.worker[s].pc = "stopped"]
       ELSE IF LoopThreshold(CountUnsummarized(store, summaries, s))
            THEN sess' = [sess EXCEPT !.worker[s].pc = "summarize"]
            ELSE UNCHANGED sess
    /\ UNCHANGED <<store, summaries, notSess>>

\* _summarize, lines 55-57, on the worker thread: the unsummarized messages
\* are read; without any the call returns.
WorkerRead(s) ==
    /\ sess.worker[s].pc = "summarize"
    /\ LET msgs == GetUnsummarizedMessages(store, summaries, s)
       IN  sess' = IF msgs = <<>>
                   THEN [sess EXCEPT !.worker[s].pc = "wait"]
                   ELSE [sess EXCEPT !.worker[s].pc = "gen",
                                     !.worker[s].last_id = LastId(msgs),
                                     !.worker[s].nread = Len(msgs),
                                     !.worker[s].readAt = Len(store)]
    /\ UNCHANGED <<store, summaries, notSess>>

\* _summarize, lines 69-75, on the worker thread: the router model answers (an
\* empty answer when the call fails); a non-empty answer is saved as a summary.
WorkerSave(s) ==
    /\ sess.worker[s].pc = "gen"
    /\ \E answer \in Answers :
          /\ summaries' = SummarizeSave(summaries, s, answer, sess.worker[s].last_id,
                                        "worker", sess.worker[s].nread,
                                        sess.worker[s].readAt)
          /\ sess' = [sess EXCEPT !.worker[s] = [NewWorker EXCEPT !.pc = "wait",
                                                !.stop = sess.worker[s].stop],
                                  !.answer = answer]
    /\ UNCHANGED <<store, notSess>>

\* /clear (bolt.py lines 386-390) and the end of the main loop (lines 432-436):
\* the session's summarizer is told to stop and force_summarize is called at once.
StopAndForce ==
    /\ sess.pc = "prompt"
    /\ \E why \in {"clear", "exit"} :
          /\ why = "clear" => sess.sid + 1 \in Sessions
          /\ sess' = [sess EXCEPT !.pc = "force", !.why = why,
                                  !.worker[sess.sid].stop = TRUE]
    /\ UNCHANGED <<store, summaries, notSess>>

\* The main loop after force_summarize: /clear opens the next session and
\* starts its summarizer (lines 394-398); otherwise the program ends.
AfterForce(se) ==
    IF se.why = "clear"
    THEN [se EXCEPT !.pc = "prompt", !.sid = se.sid + 1, !.why = "",
                    !.last_id = 0, !.readAt = 0, !.worker[se.sid + 1].pc = "wait"]
    ELSE [se EXCEPT !.pc = "exited", !.why = "", !.last_id = 0, !.readAt = 0]

\* force_summarize, _summarize lines 55-57, on the main thread.
ForceRead ==
    /\ sess.pc = "force"
    /\ LET msgs == GetUnsummarizedMessages(store, summaries, sess.sid)
       IN  sess' = IF msgs = <<>>
                   THEN AfterForce([sess EXCEPT !.nread = 0])
                   ELSE [sess EXCEPT !.pc = "force_gen", !.last_id = LastId(msgs),
                                     !.nread = Len(msgs), !.readAt = Len(store)]
    /\ UNCHANGED <<store, summaries, notSess>>

\* force_summarize, _summarize lines 69-75, on the main thread.
ForceSave ==
    /\ sess.pc = "force_gen"
    /\ \E answer \in Answers :
          /\ summaries' = SummarizeSave(summaries, sess.sid, answer, sess.last_id,
                                        "force", sess.nread, sess.readAt)
          /\ sess' = AfterForce([sess EXCEPT !.answer = answer])
    /\ UNCHANGED <<store, notSess>>

SessNext ==
    \/ ChatUser
    \/ ChatAssistant
    \/ BuildCmd
    \/ OnDone
    \/ \E s \in Sessions : WorkerCount(s)
    \/ \E s \in Sessions : WorkerRead(s)
    \/ \E s \in Sessions : WorkerSave(s)
    \/ StopAndForce
    \/ ForceRead
    \/ ForceSave

\* ------------------------------------------------------- the task tracker
\* Rows the tasks table may hold in one behaviour.
MaxTasks == 3

\* What the task tracker leaves alone.
notTasks == <<pvars, store, turn, summaries, sess, profile, ctx, san, fs, route, web, pipe, chat, call, wk, lt>>

\* The lines the router model may answer with, each given by what it starts
\* with and by the rest of it, stripped: TASK: with a title, with NONE in either
\* case or with nothing; STATUS: with a status; or any other line.
TaskLines ==
    {[tag |-> "TASK:", rest |-> r] : r \in {"t1", "t2", "NONE", "none", ""}}
        \cup {[tag |-> "STATUS:", rest |-> r] :
                 r \in {"active", "done", "paused", "ACTIVE", "Done"}}
        \cup {[tag |-> "", rest |-> "x"]}

\* The answers: up to two lines.
TaskResults == {<<>>} \cup {<<a>> : a \in TaskLines} \cup {<<a, b>> : a, b \in TaskLines}

\* str.upper() on the titles above.
Upper(x) == IF x = "none" THEN "NONE" ELSE x

\* str.lower() on the statuses above.
StatusLower(x) ==
    IF x = "ACTIVE" THEN "active" ELSE IF x = "Done" THEN "done" ELSE x

\* _parse_task_result, lines 104-111: the last TASK: and STATUS: lines count.
RECURSIVE ParseLines(_, _)
ParseLines(lines, acc) ==
    IF lines = <<>> THEN acc
    ELSE LET l == Head(lines)
         IN  ParseLines(Tail(lines),
                        IF l.tag = "TASK:" THEN [acc EXCEPT !.task_line = l.rest]
                        ELSE IF l.tag = "STATUS:"
                             THEN [acc EXCEPT !.status_line = StatusLower(l.rest)]
                        ELSE acc)

\* The row of the first active task (0: none): SELECT ... WHERE status = 'active' LIMIT 1.
RECURSIVE FirstActive(_, _)
FirstActive(tk, i) ==
    IF i > Len(tk) THEN 0
    ELSE IF tk[i].status = "active" THEN i
    ELSE FirstActive(tk, i + 1)

\* A mutation of UpsertTask: a row is inserted whatever the table holds.
UpsertTaskInsert(tk, title, status) ==
    Append(tk, [id |-> Len(tk) + 1, title |-> title, status |-> status])

\* memory.upsert_task
UpsertTask(tk, title, status) ==
    LET existing == FirstActive(tk, 1)
    IN  IF existing # 0
        THEN [tk EXCEPT ![existing] = [@ EXCEPT !.title = title, !.status = status]]
        ELSE Append(tk, [id |-> Len(tk) + 1, title |-> title, status |-> status])

\* memory.complete_active_task
CompleteActiveTask(tk) ==
    [i \in 1..Len(tk) |-> IF tk[i].status = "active"
                          THEN [tk[i] EXCEPT !.status = "done"] ELSE tk[i]]

\* The store when the task tracker is created: the tasks table is empty.
TasksInit ==
    /\ lock = "free"
    /\ active = 0
    /\ mode = "companion"
    /\ cmd = [c \in Callers |-> IdleCmd]
    /\ runs = [r \in RunIds |-> NewThread]
    /\ nextRun = 0
    /\ obs = [seen |-> FALSE, val |-> FALSE, live |-> FALSE]
    /\ store = <<>>
    /\ turn = NoTurn
    /\ summaries = <<>>
    /\ sess = NoSess
    /\ tasks = <<>>
    /\ profile = <<>>
    /\ learn = NoLearn
    /\ ctx = NoCtx
    /\ san = NoSan
    /\ fs = NoFs
    /\ lt = [t \in Learners |-> NoLearner]
    /\ wk = [d \in {"summarizer", "heartbeat"} |-> NoDaemon]
    /\ call = NoCall
    /\ chat = NoChat
    /\ pipe = NoPipe
    /\ web = NoWeb
    /\ route = NoRoute

\* A mutation of TaskOp: the status alone decides, with or without a title.
TaskOpByStatus(task_line, status_line) ==
    IF status_line = "done" THEN "complete_active_task"
    ELSE IF status_line = "active" THEN "upsert_task"
    ELSE ""

\* _parse_task_result, lines 113-121: the memory call made for the parsed
\* lines ("" is none): none without a title or with the title NONE.
TaskOp(task_line, status_line) ==
    IF task_line = "" \/ Upper(task_line) = "NONE" THEN ""
    ELSE IF status_line = "done" THEN "complete_active_task"
    ELSE IF status_line = "active" THEN "upsert_task"
    ELSE ""

\* TaskTrackerWorker.check, _parse_task_result: the answer is parsed and the
\* memory call it asks for is made. op is that call. An answer that would add
\* a row to a table of MaxTasks rows is not taken.
TaskCheck ==
    /\ \E result \in TaskResults :
          LET p == ParseLines(result, [task_line |-> "", status_line |-> ""])
              op == TaskOp(p.task_line, p.status_line)
          IN  /\ (op = "upsert_task" /\ FirstActive(tasks, 1) = 0) => (Len(tasks) < MaxTasks)
              /\ learn' = [pc |-> "checked", task_line |-> p.task_line,
                           status_line |-> p.status_line, op |-> op]
              /\ tasks' = CASE op = "complete_active_task" -> CompleteActiveTask(tasks)
                            [] op = "upsert_task" -> UpsertTask(tasks, p.task_line, "active")
                            [] OTHER -> tasks
    /\ UNCHANGED notTasks

TasksNext == TaskCheck

\* ------------------------------------------------------- the user profile
\* What save_fact and clear_profile leave alone.
notProfile == <<pvars, store, turn, summaries, sess, tasks, ctx, san, fs, route, web, pipe, chat, call, wk, lt>>

\* The (category, key) pairs, the values and the confidences (in tenths: 0.4,
\* the default 0.5, 0.9) of the facts the learner may save.
FactKeys == {<<"name", "name">>, <<"name", "nick">>, <<"work", "name">>}
FactValues == {"Alex", "Ally", "Alex2"}
Confidences == {4, 5, 9}

\* save_fact, lines 114-117: the row of (category, key) (0: none).
RECURSIVE Existing(_, _, _, _)
Existing(pr, category, key, i) ==
    IF i > Len(pr) THEN 0
    ELSE IF pr[i].category = category /\ pr[i].key = key THEN i
    ELSE Existing(pr, category, key, i + 1)

\* A mutation of Overwrites: an equal confidence does not overwrite.
OverwritesOnlyHigher(confidence, stored) == confidence > stored

\* save_fact, line 121.
Overwrites(confidence, stored) == confidence >= stored

\* identity.save_fact
SaveFact(pr, category, key, value, confidence) ==
    LET existing == Existing(pr, category, key, 1)
    IN  IF existing # 0
        THEN IF Overwrites(confidence, pr[existing].confidence)
             THEN [pr EXCEPT ![existing] = [@ EXCEPT !.value = value,
                                                     !.confidence = confidence]]
             ELSE pr
        ELSE Append(pr, [category |-> category, key |-> key, value |-> value,
                         confidence |-> confidence])

\* identity.init_profile_tables: the user_profile table is empty.
ProfileInit ==
    /\ lock = "free"
    /\ active = 0
    /\ mode = "companion"
    /\ cmd = [c \in Callers |-> IdleCmd]
    /\ runs = [r \in RunIds |-> NewThread]
    /\ nextRun = 0
    /\ obs = [seen |-> FALSE, val |-> FALSE, live |-> FALSE]
    /\ store = <<>>
    /\ turn = NoTurn
    /\ summaries = <<>>
    /\ sess = NoSess
    /\ tasks = <<>>
    /\ profile = <<>>
    /\ learn = NoLearn
    /\ ctx = NoCtx
    /\ san = NoSan
    /\ fs = NoFs
    /\ lt = [t \in Learners |-> NoLearner]
    /\ wk = [d \in {"summarizer", "heartbeat"} |-> NoDaemon]
    /\ call = NoCall
    /\ chat = NoChat
    /\ pipe = NoPipe
    /\ web = NoWeb
    /\ route = NoRoute

\* One save_fact call of learn_from_conversation (identity.py line 212); learn
\* keeps its arguments.
SaveFactCall ==
    /\ \E k \in FactKeys, value \in FactValues, confidence \in Confidences :
          /\ profile' = SaveFact(profile, k[1], k[2], value, confidence)
          /\ learn' = [pc |-> "save_fact", category |-> k[1], key |-> k[2],
                       value |-> value, confidence |-> confidence]
    /\ UNCHANGED notProfile

\* identity.clear_profile (the /forget command).
ClearProfile ==
    /\ profile # <<>>
    /\ profile' = <<>>
    /\ learn' = NoLearn
    /\ UNCHANGED notProfile

ProfileNext ==
    \/ SaveFactCall
    \/ ClearProfile

\* ------------------------------------------------------ the context assembler
\* config.MAX_CONTEXT_TOKENS
MAX_CONTEXT_TOKENS == 2000

\* config.CHARS_PER_TOKEN
CHARS_PER_TOKEN == 4

\* Recent messages the store may hold when the context is built.
MaxRecent == 3

\* What the context assembler leaves alone.
notCtx == <<pvars, store, turn, summaries, sess, tasks, profile, learn, san, fs, route, web, pipe, chat, call, wk, lt>>

\* A mutation of EstimateTokens: the quotient is rounded up.
EstimateTokensCeil(len) ==
    IF (len + CHARS_PER_TOKEN - 1) \div CHARS_PER_TOKEN >= 1
    THEN (len + CHARS_PER_TOKEN - 1) \div CHARS_PER_TOKEN ELSE 1

\* memory.estimate_tokens, on the length of the text: max(1, len(text) // 4).
EstimateTokens(len) ==
    IF len \div CHARS_PER_TOKEN >= 1 THEN len \div CHARS_PER_TOKEN ELSE 1

\* len("[Conversation summary so far]: ")
SummaryPrefixLen == 31

\* len("[Current task]: ") + len(" (status: ") + len("active") + len(")")
TaskFrameLen == 33

\* The lengths of the texts, in characters (-1: there is no summary, no
\* active task): an identity briefing of 100, 1999, 2000 or 2250 tokens; a
\* summary that makes 10, 476 or 2000 tokens with its prefix; a task title
\* that makes 10 or 500 tokens with its frame; messages of 1, 1, 1, 500, 1000
\* and 2000 tokens.
IdentityLens == {400, 7999, 8000, 9000}
SummaryLens == {-1, 9, 1876, 7969}
TitleLens == {-1, 7, 1967}
ContentLens == {0, 4, 5, 2000, 4000, 8000}

\* The rows get_recent_messages may return, oldest first, by content length.
RecentChoices ==
    UNION {[1..n -> ContentLens] : n \in 0..MaxRecent}

\* A mutation of Fits: a summary or task is taken even when it uses up or
\* exceeds what is left.
FitsAlways(cost, budget) == TRUE

\* _build_context_with_identity, lines 190 and 200: cost < budget.
Fits(cost, budget) == cost < budget

\* A mutation of SelectRecent: a row that does not fit is passed over and the
\* scan goes on.
RECURSIVE SelectRecentSkipping(_, _, _, _)
SelectRecentSkipping(recent, i, total_cost, budget) ==
    IF i = 0 THEN <<>>
    ELSE LET cost == EstimateTokens(recent[i])
         IN  IF total_cost + cost > budget
             THEN SelectRecentSkipping(recent, i - 1, total_cost, budget)
             ELSE Append(SelectRecentSkipping(recent, i - 1, total_cost + cost, budget),
                         [part |-> "recent", len |-> recent[i], row |-> i])

\* Lines 206-213: the rows from the newest to the oldest, until one does not
\* fit what is left; the result is the rows taken, oldest first.
RECURSIVE SelectRecent(_, _, _, _)
SelectRecent(recent, i, total_cost, budget) ==
    IF i = 0 THEN <<>>
    ELSE LET cost == EstimateTokens(recent[i])
         IN  IF total_cost + cost > budget THEN <<>>
             ELSE Append(SelectRecent(recent, i - 1, total_cost + cost, budget),
                         [part |-> "recent", len |-> recent[i], row |-> i])

\* brain._build_context_with_identity: the messages returned, each given by
\* the part of the context it is and the length of its content.
BuildContext(identity_len, summary_len, title_len, recent) ==
    LET budget1 == MAX_CONTEXT_TOKENS - EstimateTokens(identity_len)
        scost == EstimateTokens(SummaryPrefixLen + summary_len)
        takeS == summary_len # -1 /\ Fits(scost, budget1)
        budget2 == IF takeS THEN budget1 - scost ELSE budget1
        tcost == EstimateTokens(TaskFrameLen + title_len)
        takeT == title_len # -1 /\ Fits(tcost, budget2)
        budget3 == IF takeT THEN budget2 - tcost ELSE budget2
    IN  <<[part |-> "identity", len |-> identity_len]>>
          \o (IF takeS THEN <<[part |-> "summary", len |-> SummaryPrefixLen + summary_len]>>
              ELSE <<>>)
          \o (IF takeT THEN <<[part |-> "task", len |-> TaskFrameLen + title_len]>>
              ELSE <<>>)
          \o SelectRecent(recent, Len(recent), 0, budget3)

\* Any store content: an identity briefing, a latest summary or none, an
\* active task or none, and the recent messages.
CtxInit ==
    /\ lock = "free"
    /\ active = 0
    /\ mode = "companion"
    /\ cmd = [c \in Callers |-> IdleCmd]
    /\ runs = [r \in RunIds |-> NewThread]
    /\ nextRun = 0
    /\ obs = [seen |-> FALSE, val |-> FALSE, live |-> FALSE]
    /\ store = <<>>
    /\ turn = NoTurn
    /\ summaries = <<>>
    /\ sess = NoSess
    /\ tasks = <<>>
    /\ profile = <<>>
    /\ learn = NoLearn
    /\ \E i \in IdentityLens, s \in SummaryLens, t \in TitleLens, r \in RecentChoices :
          ctx = [NoCtx EXCEPT !.pc = "ready", !.identity_len = i, !.summary_len = s,
                              !.title_len = t, !.recent = r]
    /\ san = NoSan
    /\ fs = NoFs
    /\ lt = [t \in Learners |-> NoLearner]
    /\ wk = [d \in {"summarizer", "heartbeat"} |-> NoDaemon]
    /\ call = NoCall
    /\ chat = NoChat
    /\ pipe = NoPipe
    /\ web = NoWeb
    /\ route = NoRoute

\* process_message, line 153: memory.save_message stores the user message
\* with its token estimate; the row is the newest of the session.
SaveUserMessage ==
    /\ ctx.pc = "ready"
    /\ \E l \in ContentLens :
          ctx' = [ctx EXCEPT !.pc = "saved", !.recent = Append(@, l),
                             !.saved = [len |-> l, token_estimate |-> EstimateTokens(l)]]
    /\ UNCHANGED notCtx

\* process_message, line 162: the context is built.
BuildContextCall ==
    /\ ctx.pc = "saved"
    /\ ctx' = [ctx EXCEPT !.pc = "built",
                          !.messages = BuildContext(ctx.identity_len, ctx.summary_len,
                                                    ctx.title_len, ctx.recent)]
    /\ UNCHANGED notCtx

CtxNext ==
    \/ SaveUserMessage
    \/ BuildContextCall

\* ------------------------------------------------------------ the sanitizer
\* identity.py line 270: the length above which the text is cut.
SanitizeCap == 2000

\* Pieces of text a stored fact or handoff may be made of.
MaxText == 5

\* What the sanitizer leaves alone.
notSan == <<pvars, store, turn, summaries, sess, tasks, profile, learn, ctx, fs, route, web, pipe, chat, call, wk, lt>>

\* The pieces: single characters, the two halves of the word tool, a run of
\* SanitizeCap letters x, and the "&lt;" the sanitizer writes.
LT == "<"
SL == "/"
TO == "to"
OL == "ol"
LB == "{"
RB == "}"
FILL == "xxx..."
AMP == "&lt;"
DOTS == "..."

TextPieces == {LT, SL, TO, OL, LB, RB, FILL}

\* The texts: every sequence of up to MaxText pieces.
Texts == UNION {[1..n -> TextPieces] : n \in 0..MaxText}

\* len() of a piece.
CharLen(piece) ==
    CASE piece = FILL -> SanitizeCap
      [] piece \in {TO, OL} -> 2
      [] piece = AMP -> 4
      [] piece = DOTS -> 3
      [] OTHER -> 1

RECURSIVE TextLen(_)
TextLen(text) == IF text = <<>> THEN 0 ELSE CharLen(Head(text)) + TextLen(Tail(text))

\* The first n characters of a piece, 0 < n < len(piece).
CutPiece(piece, n) ==
    CASE piece = FILL -> "xx."
      [] piece = TO -> "t"
      [] piece = OL -> "o"
      [] piece = AMP -> (IF n = 1 THEN "&" ELSE IF n = 2 THEN "&l" ELSE "&lt")

\* text[:n]
RECURSIVE FirstN(_, _)
FirstN(text, n) ==
    IF text = <<>> \/ n = 0 THEN <<>>
    ELSE IF CharLen(Head(text)) <= n
         THEN <<Head(text)>> \o FirstN(Tail(text), n - CharLen(Head(text)))
         ELSE <<CutPiece(Head(text), n)>>

\* str.replace(old, new): the occurrences of old from left to right, none
\* overlapping another, each replaced by new.
RECURSIVE Replace(_, _, _)
Replace(text, old, new) ==
    IF text = <<>> THEN <<>>
    ELSE IF StartsWith(text, old)
         THEN new \o Replace(SubSeq(text, Len(old) + 1, Len(text)), old, new)
         ELSE <<Head(text)>> \o Replace(Tail(text), old, new)

\* A mutation of SanitizeForPrompt: the tool tags are replaced before the
\* braces are removed.
SanitizeTagsFirst(text) ==
    IF text = <<>> THEN text
    ELSE LET t1 == Replace(text, <<LT, TO, OL>>, <<AMP, TO, OL>>)
             t2 == Replace(t1, <<LT, SL, TO, OL>>, <<AMP, SL, TO, OL>>)
             t3 == Replace(t2, <<LB>>, <<>>)
             t4 == Replace(t3, <<RB>>, <<>>)
         IN  IF TextLen(t4) > SanitizeCap
             THEN FirstN(t4, SanitizeCap) \o <<DOTS>>
             ELSE t4

\* identity._sanitize_for_prompt
SanitizeForPrompt(text) ==
    IF text = <<>> THEN text
    ELSE LET t1 == Replace(text, <<LB>>, <<>>)
             t2 == Replace(t1, <<RB>>, <<>>)
             t3 == Replace(t2, <<LT, TO, OL>>, <<AMP, TO, OL>>)
             t4 == Replace(t3, <<LT, SL, TO, OL>>, <<AMP, SL, TO, OL>>)
         IN  IF TextLen(t4) > SanitizeCap
             THEN FirstN(t4, SanitizeCap) \o <<DOTS>>
             ELSE t4

\* build_identity is called with some profile snapshot or handoff text stored.
SanInit ==
    /\ lock = "free"
    /\ active = 0
    /\ mode = "companion"
    /\ cmd = [c \in Callers |-> IdleCmd]
    /\ runs = [r \in RunIds |-> NewThread]
    /\ nextRun = 0
    /\ obs = [seen |-> FALSE, val |-> FALSE, live |-> FALSE]
    /\ store = <<>>
    /\ turn = NoTurn
    /\ summaries = <<>>
    /\ sess = NoSess
    /\ tasks = <<>>
    /\ profile = <<>>
    /\ learn = NoLearn
    /\ ctx = NoCtx
    /\ \E text \in Texts : san = [pc |-> "stored", text |-> text, out |-> <<>>]
    /\ fs = NoFs
    /\ lt = [t \in Learners |-> NoLearner]
    /\ wk = [d \in {"summarizer", "heartbeat"} |-> NoDaemon]
    /\ call = NoCall
    /\ chat = NoChat
    /\ pipe = NoPipe
    /\ web = NoWeb
    /\ route = NoRoute

\* build_identity, lines 282 and 301: the text is sanitized before it enters
\* the identity briefing.
Sanitize ==
    /\ san.pc = "stored"
    /\ san' = [san EXCEPT !.pc = "sanitized", !.out = SanitizeForPrompt(san.text)]
    /\ UNCHANGED notSan

SanNext == Sanitize

\* ------------------------------------------------------------ the file tools
notFs == <<pvars, store, turn, summaries, sess, tasks, profile, learn, ctx, san, route, web, pipe, chat, call, wk, lt>>

\* _DENIED_PATHS: ~/.ssh, ~/.gnupg and ~/.config/autostart.
DeniedPaths ==
    {HomeDir \o <<SEP, ".ssh">>,
     HomeDir \o <<SEP, ".gnupg">>,
     HomeDir \o <<SEP, ".config", SEP, "autostart">>}

\* The working directory of the process, which realpath puts before a
\* relative path: inside the home directory or outside it.
Cwds == {HomeDir \o <<SEP, "w">>, <<SEP, "w">>}

\* The first line of the arguments of a file tool.
PathArgs ==
    {<<SEP, "h", SEP, "f">>,
     <<"~", SEP, "f">>,
     <<SEP, "e", SEP, "p">>,
     <<SEP, "h", SEP, ".ssh", SEP, "k">>,
     <<SEP, "h", SEP, ".ssh">>,
     <<SEP, "h", SEP, ".ssh", "x", SEP, "k">>,
     <<SEP, "h", "x", SEP, "f">>,
     <<SEP, "h", SEP, ".", ".", SEP, "e", SEP, "p">>,
     <<SEP, "h", SEP, ".config", SEP, "autostart", SEP, "a">>,
     <<SEP, "h", SEP, ".config", SEP, "a">>,
     <<"f">>,
     <<SEP, "h">>,
     <<SEP, "h", SEP, ".gnupg", SEP, ".", ".", SEP, "f">>,
     <<"~", SEP, ".gnupg", SEP, "k">>}

\* os.path.expanduser: a leading "~" alone or before a separator is the home
\* directory.
ExpandUser(p) ==
    IF p # <<>> /\ p[1] = "~" /\ (Len(p) = 1 \/ p[2] = SEP)
    THEN HomeDir \o SubSeq(p, 2, Len(p))
    ELSE p

\* os.path.dirname of a resolved path.
Dirname(p) ==
    LET comps == SplitFrom(p, 1, <<>>)
    IN  IF Len(comps) <= 1 THEN <<SEP>>
        ELSE JoinComps(SubSeq(comps, 1, Len(comps) - 1))

\* A mutation of UnderDenied: only the denied directory itself is refused.
UnderDeniedItself(resolved) == resolved \in DeniedPaths

\* _validate_path, lines 44-45.
UnderDenied(resolved) ==
    \E denied \in DeniedPaths :
        StartsWith(resolved, denied \o <<SEP>>) \/ resolved = denied

\* _validate_path with allow_read_only false: (resolved_path, error_string).
ValidatePath(cwd, path) ==
    LET resolved == RealPath(PathJoin(cwd, ExpandUser(path)))
    IN  IF ~StartsWith(resolved, HomeDir \o <<SEP>>) /\ resolved # HomeDir
        THEN [resolved |-> <<>>,
              err |-> <<"Access denied", ": path must be under ">> \o HomeDir]
        ELSE IF UnderDenied(resolved)
        THEN [resolved |-> <<>>, err |-> <<"Access denied", ": cannot write to ">>]
        ELSE [resolved |-> resolved, err |-> <<>>]

\* The entries of the file system the tools can name, and the directories
\* os.makedirs can create for them.
FsPaths ==
    LET resolved == {RealPath(PathJoin(cwd, ExpandUser(p))) : cwd \in Cwds, p \in PathArgs}
    IN  resolved \cup {Dirname(r) : r \in resolved}

NoEntry == [kind |-> "none", content |-> <<>>]
DirEntry == [kind |-> "dir", content |-> <<>>]
FileEntry(content) == [kind |-> "file", content |-> content]

\* The file system before the first call: the home directory with a file, a
\* key in ~/.ssh, the autostart directory, and a system file.
InitialFiles(cwd) ==
    [p \in FsPaths |->
        IF p \in {<<SEP>>, HomeDir, <<SEP, "e">>, cwd, HomeDir \o <<SEP, ".ssh">>,
                  HomeDir \o <<SEP, ".gnupg">>, HomeDir \o <<SEP, ".config">>,
                  HomeDir \o <<SEP, ".config", SEP, "autostart">>}
        THEN DirEntry
        ELSE IF p \in {HomeDir \o <<SEP, "f">>, <<SEP, "e", SEP, "p">>,
                       HomeDir \o <<SEP, ".ssh", SEP, "k">>}
        THEN FileEntry(<<"a", "a">>)
        ELSE NoEntry]

\* content.replace(old, new, 1) for an old of one character.
RECURSIVE ReplaceFirst(_, _, _)
ReplaceFirst(content, old, new) ==
    IF content = <<>> THEN <<>>
    ELSE IF <<Head(content)>> = old THEN new \o Tail(content)
    ELSE <<Head(content)>> \o ReplaceFirst(Tail(content), old, new)

\* old in content, for an old of one character.
OldInContent(content, old) == \E i \in 1..Len(content) : <<content[i]>> = old

\* What a file tool call is given: the lines of its arguments after strip(),
\* and whether the operating system refuses the write.
WriteArgs == {<<p>> : p \in PathArgs} \cup {<<p, <<"b">>>> : p \in PathArgs}
EditArgs ==
    {<<p>> : p \in PathArgs} \cup {<<p, <<"a">>>> : p \in PathArgs}
    \cup {<<p, old, <<"b">>>> : p \in PathArgs, old \in {<<"a">>, <<"z">>}}

\* tool_write_file: the new file system and the returned string.
WriteFileTool(files, cwd, lines, oserr) ==
    IF Len(lines) < 2
    THEN [files |-> files, result |-> <<"Usage", ": first line is file path, remaining lines are content.">>]
    ELSE LET v == ValidatePath(cwd, lines[1])
             path == v.resolved
         IN  IF v.err # <<>> THEN [files |-> files, result |-> v.err]
             ELSE IF oserr \/ files[path].kind = "dir"
             THEN [files |-> files, result |-> <<"Error writing file", ": ">>]
             ELSE [files |-> [p \in FsPaths |->
                                 IF p = path THEN FileEntry(lines[2])
                                 ELSE IF p = Dirname(path) /\ files[p].kind = "none"
                                 THEN DirEntry
                                 ELSE files[p]],
                   result |-> <<"Written to ">> \o path]

\* tool_edit_file: the new file system and the returned string.
EditFileTool(files, cwd, lines, oserr) ==
    IF Len(lines) < 3
    THEN [files |-> files, result |-> <<"Usage", ": line1=file path, line2=string to find, line3=replacement string">>]
    ELSE LET v == ValidatePath(cwd, lines[1])
             path == v.resolved
         IN  IF v.err # <<>> THEN [files |-> files, result |-> v.err]
             ELSE IF files[path].kind # "file"
             THEN [files |-> files, result |-> <<"File not found", ": ">> \o path]
             ELSE IF oserr
             THEN [files |-> files, result |-> <<"Error editing file", ": ">>]
             ELSE IF ~OldInContent(files[path].content, lines[2])
             THEN [files |-> files, result |-> <<"String to replace not found in file.">>]
             ELSE [files |-> [files EXCEPT ![path] =
                                 FileEntry(ReplaceFirst(files[path].content, lines[2], lines[3]))],
                   result |-> <<"Edited ">> \o path]

FilesInit ==
    /\ lock = "free"
    /\ active = 0
    /\ mode = "companion"
    /\ cmd = [c \in Callers |-> IdleCmd]
    /\ runs = [r \in RunIds |-> NewThread]
    /\ nextRun = 0
    /\ obs = [seen |-> FALSE, val |-> FALSE, live |-> FALSE]
    /\ store = <<>>
    /\ turn = NoTurn
    /\ summaries = <<>>
    /\ sess = NoSess
    /\ tasks = <<>>
    /\ profile = <<>>
    /\ learn = NoLearn
    /\ ctx = NoCtx
    /\ san = NoSan
    /\ \E cwd \in Cwds :
          fs = [pc |-> "ready", cwd |-> cwd, files |-> InitialFiles(cwd),
                tool |-> "", lines |-> <<>>, result |-> <<>>]
    /\ route = NoRoute
    /\ web = NoWeb
    /\ pipe = NoPipe
    /\ chat = NoChat
    /\ call = NoCall
    /\ wk = [d \in {"summarizer", "heartbeat"} |-> NoDaemon]
    /\ lt = [t \in Learners |-> NoLearner]

\* execute_tool("write_file", args)
ToolWriteFile ==
    /\ fs.pc \in {"ready", "returned"}
    /\ \E lines \in WriteArgs, oserr \in BOOLEAN :
          LET r == WriteFileTool(fs.files, fs.cwd, lines, oserr)
          IN  fs' = [fs EXCEPT !.pc = "returned", !.files = r.files,
                               !.tool = "write_file", !.lines = lines,
                               !.result = r.result]
    /\ UNCHANGED notFs

\* execute_tool("edit_file", args)
ToolEditFile ==
    /\ fs.pc \in {"ready", "returned"}
    /\ \E lines \in EditArgs, oserr \in BOOLEAN :
          LET r == EditFileTool(fs.files, fs.cwd, lines, oserr)
          IN  fs' = [fs EXCEPT !.pc = "returned", !.files = r.files,
                               !.tool = "edit_file", !.lines = lines,
                               !.result = r.result]
    /\ UNCHANGED notFs

FilesNext == ToolWriteFile \/ ToolEditFile

\* ----------------------------------------------------------------- the router
notRoute == <<lock, active, cmd, runs, nextRun, obs, store, turn, summaries, sess,
              tasks, profile, learn, ctx, san, fs, web, pipe, chat, call, wk, lt>>

\* config.MODELS: the keys of the model roster.
Roster == {"router", "companion", "fast_code", "worker_light", "worker_heavy",
           "beast", "cloud"}

\* Words of one reply of the router model.
MaxWords == 2

\* What a reply of the router model is made of: the category names, in
\* either case or inside a longer word, other words, and the bracketed text
\* _ollama_chat yields when the model cannot be reached.
Words == {"cloud", "code_beast", "code_complex", "code_simple", "companion",
          "CLOUD", "cloudy", "code", "[BOLT: Request timed out.]"}

Replies == UNION {[1..n -> Words] : n \in 0..MaxWords}

\* str.lower on a word.
Lower(w) ==
    IF w = "CLOUD" THEN "cloud"
    ELSE IF w = "[BOLT: Request timed out.]" THEN "[bolt: request timed out.]"
    ELSE w

\* cat in result, for a result given by its words.
CatIn(cat, result) ==
    \E i \in 1..Len(result) :
        \/ result[i] = cat
        \/ result[i] = "cloudy" /\ cat = "cloud"

\* _classify, lines 118-122: the first category, in the order of the tuple,
\* that occurs in the lowered reply; companion when none does.
ClassifyReply(reply) ==
    LET result == [i \in 1..Len(reply) |-> Lower(reply[i])]
    IN  IF CatIn("cloud", result) THEN "cloud"
        ELSE IF CatIn("code_beast", result) THEN "code_beast"
        ELSE IF CatIn("code_complex", result) THEN "code_complex"
        ELSE IF CatIn("code_simple", result) THEN "code_simple"
        ELSE IF CatIn("companion", result) THEN "companion"
        ELSE "companion"

RouteInit ==
    /\ lock = "free"
    /\ active = 0
    /\ mode \in Modes
    /\ cmd = [c \in Callers |-> IdleCmd]
    /\ runs = [r \in RunIds |-> NewThread]
    /\ nextRun = 0
    /\ obs = [seen |-> FALSE, val |-> FALSE, live |-> FALSE]
    /\ store = <<>>
    /\ turn = NoTurn
    /\ summaries = <<>>
    /\ sess = NoSess
    /\ tasks = <<>>
    /\ profile = <<>>
    /\ learn = NoLearn
    /\ ctx = NoCtx
    /\ san = NoSan
    /\ fs = NoFs
    /\ lt = [t \in Learners |-> NoLearner]
    /\ wk = [d \in {"summarizer", "heartbeat"} |-> NoDaemon]
    /\ call = NoCall
    /\ chat = NoChat
    /\ pipe = NoPipe
    /\ \E reply \in Replies : route = [NoRoute EXCEPT !.pc = "asked", !.reply = reply]
    /\ web = NoWeb

\* process_message, line 156: category = _classify(user_message)
ClassifyCall ==
    /\ route.pc = "asked"
    /\ route' = [route EXCEPT !.pc = "classified", !.category = ClassifyReply(route.reply)]
    /\ UNCHANGED <<mode, notRoute>>

\* process_message, line 157: model_key = _pick_model(category), with what
\* cloud.is_available() answers at that moment.
PickModelCall ==
    /\ route.pc = "classified"
    /\ \E cloud_ok \in BOOLEAN :
          route' = [route EXCEPT !.pc = "picked", !.cloud_ok = cloud_ok,
                                 !.model_key = PickModel(mode, route.category, cloud_ok)]
    /\ UNCHANGED <<mode, notRoute>>

\* process_message, lines 158-162, and build_identity, lines 285-290: the
\* effective mode of the category and the briefing it selects.
BuildIdentityCall ==
    /\ route.pc = "picked"
    /\ LET effective_mode == PickModeForCategory(route.category)
       IN  route' = [route EXCEPT !.pc = "briefed", !.effective_mode = effective_mode,
                                  !.mode_context = ModeContext(effective_mode)]
    /\ UNCHANGED <<mode, notRoute>>

\* /companion, /code and /build between two messages: set_mode.
SetModeCall ==
    /\ route.pc = "asked"
    /\ \E m \in Modes : m # mode /\ mode' = m
    /\ UNCHANGED <<route, notRoute>>

RouteNext == ClassifyCall \/ PickModelCall \/ BuildIdentityCall \/ SetModeCall

\* ------------------------------------------------------ the web chat endpoint
notWeb == <<pvars, store, turn, summaries, sess, tasks, profile, learn, ctx, san, fs,
            route, pipe, chat, call, wk, lt>>

\* A mutation of TryAcquire: the lock is taken whether it is free or not.
TryAcquireAlways(l) == TRUE

\* _chat_lock.acquire(blocking=False): true when the lock was free.
TryAcquire(l) == l = 0

WebInit ==
    /\ lock = "free"
    /\ active = 0
    /\ mode = "code"
    /\ cmd = [c \in Callers |-> IdleCmd]
    /\ runs = [r \in RunIds |-> NewThread]
    /\ nextRun = 0
    /\ obs = [seen |-> FALSE, val |-> FALSE, live |-> FALSE]
    /\ store = <<>>
    /\ turn = NoTurn
    /\ summaries = <<>>
    /\ sess = NoSess
    /\ tasks = <<>>
    /\ profile = <<>>
    /\ learn = NoLearn
    /\ ctx = NoCtx
    /\ san = NoSan
    /\ fs = NoFs
    /\ lt = [t \in Learners |-> NoLearner]
    /\ wk = [d \in {"summarizer", "heartbeat"} |-> NoDaemon]
    /\ call = NoCall
    /\ chat = NoChat
    /\ pipe = NoPipe
    /\ route = NoRoute
    /\ web = NoWeb

\* api_chat, lines 104-112: a request without a valid token or without a
\* message is answered at once.
WebArrive(r) ==
    /\ web.req[r].pc = "none"
    /\ \E to \in {"401", "400", "ready"} : web' = [web EXCEPT !.req[r].pc = to]
    /\ UNCHANGED notWeb

\* api_chat, lines 115-116: the lock is taken without blocking, or the request
\* is answered with 429.
WebAcquire(r) ==
    /\ web.req[r].pc = "ready"
    /\ web' = IF TryAcquire(web.lock)
              THEN [web EXCEPT !.lock = r, !.req[r].pc = "locked"]
              ELSE [web EXCEPT !.req[r].pc = "429"]
    /\ UNCHANGED notWeb

\* api_chat, lines 144-145, and _stream_worker, line 126: the stream worker
\* is started and calls process_message.
WebStart(r) ==
    /\ web.req[r].pc = "locked"
    /\ web' = [web EXCEPT !.req[r].pc = "turn", !.req[r].called = TRUE,
                          !.live = @ + 1]
    /\ UNCHANGED notWeb

\* _stream_worker, lines 126 and 138-139: process_message returns, or raises
\* and the error is put on the queue.
WebTurnEnd(r) ==
    /\ web.req[r].pc = "turn"
    /\ \E raised \in BOOLEAN :
          web' = IF raised
                 THEN [web EXCEPT !.live = @ - 1, !.req[r].pc = "finally",
                                  !.req[r].out = "error"]
                 ELSE [web EXCEPT !.live = @ - 1, !.req[r].pc = "learn"]
    /\ UNCHANGED notWeb

\* _stream_worker, lines 129-137: the background learning, whose exceptions
\* are swallowed, then the response is put on the queue.
WebLearn(r) ==
    /\ web.req[r].pc = "learn"
    /\ web' = [web EXCEPT !.req[r].pc = "finally", !.req[r].out = "done"]
    /\ UNCHANGED notWeb

\* _stream_worker, lines 140-141: finally, the lock is released.
WebRelease(r) ==
    /\ web.req[r].pc = "finally"
    /\ web' = [web EXCEPT !.lock = 0, !.req[r].pc = "released"]
    /\ UNCHANGED notWeb

WebNext ==
    \/ \E r \in Reqs : WebArrive(r)
    \/ \E r \in Reqs : WebAcquire(r)
    \/ \E r \in Reqs : WebStart(r)
    \/ \E r \in Reqs : WebTurnEnd(r)
    \/ \E r \in Reqs : WebLearn(r)
    \/ \E r \in Reqs : WebRelease(r)

\* ---------------------------------------- the pipeline and the model server
notPipe == <<pvars, store, turn, summaries, sess, tasks, profile, learn, ctx, san, fs,
             route, web, chat, call, wk, lt>>

\* pipeline.KEEP_ALIVE_MODEL, line 44: MODELS["router"]. The names of the
\* roster are pairwise different, so a model is written by its key.
KEEP_ALIVE_MODEL == "router"

\* Longest file list the architect gives one worker.
MaxFiles == 2

\* Paths of the files of a plan.
Files == {"a", "b"}

\* plan["worker_heavy"]["files"], plan["worker_light"]["files"]
TaskLists == UNION {[1..n -> Files] : n \in 0..MaxFiles}

\* The two worker threads of stage_build, by the model each one uses.
Workers == {"worker_heavy", "worker_light"}

\* One POST /api/generate: keep_alive 0 (unload_model), the prompt "hi"
\* (warm_model), or a prompt of a stage (_ollama_generate), here for a file.
Request(op, m, f) == [op |-> op, model |-> m, file |-> f]

\* The order in which GET /api/ps lists the resident models.
ModelOrder ==
    <<"router", "companion", "fast_code", "worker_light", "worker_heavy", "beast">>

\* GET /api/ps: the resident models, or no list (an exception or a status
\* other than 200).
PsAnswers(loaded) ==
    {[called |-> TRUE, ok |-> TRUE,
      models |-> SelectSeq(ModelOrder, LAMBDA m : m \in loaded)],
     [called |-> TRUE, ok |-> FALSE, models |-> <<>>]}

\* A mutation of IsKeepAlive: no model is recognised as the router.
IsKeepAliveNever(m) == FALSE

\* unload_all_except_chat, line 83: m["name"] != KEEP_ALIVE_MODEL
IsKeepAlive(m) == m = KEEP_ALIVE_MODEL

\* unload_all_except_chat: one unload_model for each listed model but the
\* router, in the order of the list; none when the list could not be had.
UnloadAllExceptChat(ps) ==
    LET sel == SelectSeq(ps.models, LAMBDA m : ~IsKeepAlive(m))
    IN  [i \in 1..Len(sel) |-> Request("unload", sel[i], "")]

\* The server after the requests: keep_alive 0 drops the model, any other
\* request loads it.
RECURSIVE Serve(_, _)
Serve(loaded, reqs) ==
    IF reqs = <<>> THEN loaded
    ELSE Serve(IF Head(reqs).op = "unload" THEN loaded \ {Head(reqs).model}
               ELSE loaded \cup {Head(reqs).model},
               Tail(reqs))

\* A step of the pipeline that sends reqs after the answer ps.
Issue(p, reqs, ps) ==
    [p EXCEPT !.last = reqs, !.ps = ps, !.loaded = Serve(p.loaded, reqs)]

\* stage_spec 165-174, stage_architect 190-199, stage_review 290-309: the
\* other models are unloaded, the stage's model generates and is unloaded.
StageRequests(model, ps) ==
    UnloadAllExceptChat(ps)
        \o <<Request("generate", model, ""), Request("unload", model, "")>>

\* Residency when /build is typed: bolt.py warms router and companion at
\* startup; chat in code mode may have left the beast resident.
InitialLoaded ==
    {{"router", "companion"}, {"router", "companion", "beast"}, {"companion"}}

\* Models another client of the server (a chat turn, the heartbeat) loads
\* while the pipeline runs, and models the server drops on its own.
ChatModels == {"router", "companion"}

PipeInit ==
    /\ lock = "free"
    /\ active = 0
    /\ mode = "build"
    /\ cmd = [c \in Callers |-> IdleCmd]
    /\ runs = [r \in RunIds |-> NewThread]
    /\ nextRun = 0
    /\ obs = [seen |-> FALSE, val |-> FALSE, live |-> FALSE]
    /\ store = <<>>
    /\ turn = NoTurn
    /\ summaries = <<>>
    /\ sess = NoSess
    /\ tasks = <<>>
    /\ profile = <<>>
    /\ learn = NoLearn
    /\ ctx = NoCtx
    /\ san = NoSan
    /\ fs = NoFs
    /\ lt = [t \in Learners |-> NoLearner]
    /\ wk = [d \in {"summarizer", "heartbeat"} |-> NoDaemon]
    /\ call = NoCall
    /\ chat = NoChat
    /\ route = NoRoute
    /\ web = NoWeb
    /\ \E l \in InitialLoaded : pipe = [NoPipe EXCEPT !.loaded = l]

\* run_pipeline, lines 442-465, with the slot empty: the router is warmed
\* and the thread is started.
RunPipelineWarm ==
    /\ pipe.pc = "idle"
    /\ pipe' = [Issue(pipe, <<Request("warm", KEEP_ALIVE_MODEL, "")>>, NoPs)
                  EXCEPT !.pc = "spec"]
    /\ UNCHANGED notPipe

\* A mutation of Returned: success needs a file to have been written.
ReturnedIfWritten(p, success) ==
    [p EXCEPT !.pc = "callback",
              !.result = IF success /\ p.written > 0 THEN "success" ELSE "failure"]

\* _run_pipeline_inner returns (success, ...) to _pipeline_thread.
Returned(p, success) ==
    [p EXCEPT !.pc = "callback", !.result = IF success THEN "success" ELSE "failure"]

\* An exception leaves _run_pipeline_inner: _pipeline_thread has no except
\* clause, the thread ends in its finally.
Thrown(p) == [p EXCEPT !.pc = "done", !.raised = TRUE]

\* stage_spec: no spec (None), an exception of line 182, or a spec whose
\* output_dir stage_write will accept or refuse.
StageSpecCalls ==
    /\ pipe.pc = "spec"
    /\ \E ps \in PsAnswers(pipe.loaded) :
          LET p == [Issue(pipe, StageRequests("fast_code", ps), ps)
                      EXCEPT !.phase = "spec"]
          IN  \/ pipe' = Returned(p, FALSE)
              \/ pipe' = Thrown(p)
              \/ \E ok \in BOOLEAN : pipe' = [p EXCEPT !.pc = "architect", !.spec_ok = TRUE,
                                                       !.dir_ok = ok]
    /\ UNCHANGED notPipe

\* stage_architect: the profile lookup of line 193 raises before the model is
\* used; or the model is used and gives no plan (None), a plan on which line
\* 206 raises, or a plan with the two file lists.
StageArchitectCalls ==
    /\ pipe.pc = "architect"
    /\ \E ps \in PsAnswers(pipe.loaded) :
          LET q == [Issue(pipe, UnloadAllExceptChat(ps), ps) EXCEPT !.phase = "architect"]
              p == [Issue(pipe, StageRequests("beast", ps), ps)
                      EXCEPT !.phase = "architect"]
          IN  \/ pipe' = Thrown(q)
              \/ pipe' = Returned(p, FALSE)
              \/ pipe' = Thrown(p)
              \/ \E h \in TaskLists, l \in TaskLists :
                    pipe' = [p EXCEPT !.pc = "build", !.plan_ok = TRUE,
                                      !.heavy = h, !.light = l]
    /\ UNCHANGED notPipe

\* stage_build, lines 250-262: the other models are unloaded, then the two
\* worker models are warmed by two threads, which are joined.
StageBuildWarm ==
    /\ pipe.pc = "build"
    /\ \E ps \in PsAnswers(pipe.loaded), first \in Workers :
          LET second == CHOOSE k \in Workers : k # first
              warm == <<Request("warm", first, ""), Request("warm", second, "")>>
          IN  pipe' = [Issue(pipe, UnloadAllExceptChat(ps) \o warm, ps)
                         EXCEPT !.pc = "warmed", !.phase = "build"]
    /\ UNCHANGED notPipe

\* stage_build, lines 265-275: the profile lookup of line 270 raises, or the
\* two worker threads are started. The server answers the generate requests
\* of the build, or fails every one of them (errors).
StageBuildStart ==
    /\ pipe.pc = "warmed"
    /\ LET p == Issue(pipe, <<>>, NoPs)
       IN  \/ pipe' = Thrown(p)
           \/ \E down \in BOOLEAN :
                 pipe' = [p EXCEPT !.pc = "workers", !.errors = down,
                             !.worker = [k \in Workers |-> [pc |-> "running", pos |-> 0]]]
    /\ UNCHANGED notPipe

\* The file list of a worker: heavy_tasks, light_tasks.
TasksOf(p, k) == IF k = "worker_heavy" THEN p.heavy ELSE p.light

\* A mutation of TaskAt: the list is walked from its end.
TaskAtReversed(list, pos) == list[Len(list) - pos]

\* _run_worker, line 214: for task in tasks; pos tasks have been taken.
TaskAt(list, pos) == list[pos + 1]

\* _run_worker, one iteration: the worker's model generates the file and the
\* result is put in the shared map, the code or (pipe.errors) the
\* "[error: ...]" text that _ollama_generate returns when the request fails
\* (lines 58-61); or the task is no object with a path and a description
\* (lines 215-216 raise) and the thread ends.
RunWorker(k) ==
    /\ pipe.pc = "workers"
    /\ pipe.worker[k].pc = "running"
    /\ pipe.worker[k].pos < Len(TasksOf(pipe, k))
    /\ LET f == TaskAt(TasksOf(pipe, k), pipe.worker[k].pos)
       IN  \/ pipe' = [Issue(pipe, <<Request("generate", k, f)>>, NoPs)
                         EXCEPT !.worker[k].pos = @ + 1, !.results = @ \cup {f}]
           \/ pipe' = [Issue(pipe, <<>>, NoPs) EXCEPT !.worker[k].pc = "finished"]
    /\ UNCHANGED notPipe

\* _run_worker returns: the list is exhausted.
WorkerReturn(k) ==
    /\ pipe.pc = "workers"
    /\ pipe.worker[k].pc = "running"
    /\ pipe.worker[k].pos = Len(TasksOf(pipe, k))
    /\ pipe' = [Issue(pipe, <<>>, NoPs) EXCEPT !.worker[k].pc = "finished"]
    /\ UNCHANGED notPipe

\* A mutation of Joined: one finished worker is enough.
JoinedEither(worker) == \E k \in Workers : worker[k].pc = "finished"

\* stage_build, lines 276-277: th.join(); tl.join()
Joined(worker) == \A k \in Workers : worker[k].pc = "finished"

\* stage_build, lines 276-285, and _run_pipeline_inner 394-396: after the
\* joins both worker models are unloaded; an empty map ends the run.
StageBuildJoin ==
    /\ pipe.pc = "workers"
    /\ Joined(pipe.worker)
    /\ LET p == Issue(pipe, <<Request("unload", "worker_heavy", ""),
                              Request("unload", "worker_light", "")>>, NoPs)
       IN  pipe' = IF pipe.results = {} THEN Returned(p, FALSE)
                   ELSE [p EXCEPT !.pc = "review"]
    /\ UNCHANGED notPipe

\* What the reviewer's output is: no JSON object, or one with a verdict.
Reviews == {"unparsed", "pass", "fix_needed"}

\* stage_review, lines 312-317: the verdict of the dict it returns.
Verdict(review) == IF review = "unparsed" THEN "pass" ELSE review

\* stage_review: an output that is parsed or not; with issues that are no
\* objects line 324 raises. The stage never ends the run by its result.
StageReviewCalls ==
    /\ pipe.pc = "review"
    /\ \E ps \in PsAnswers(pipe.loaded), rv \in Reviews :
          LET p == [Issue(pipe, StageRequests("beast", ps), ps)
                      EXCEPT !.phase = "review", !.review = rv, !.verdict = Verdict(rv)]
          IN  \/ pipe' = [p EXCEPT !.pc = "write"]
              \/ /\ rv = "fix_needed"
                 /\ pipe' = Thrown(p)
    /\ UNCHANGED notPipe

\* stage_write: a refused output_dir returns [] at line 338; else makedirs or
\* open raises, or n files are written (the others are skipped as traversal)
\* and lines 357-360 unload all but the router and warm the companion.
\* _run_pipeline_inner then returns (True, output_dir, summary).
StageWriteCalls ==
    /\ pipe.pc = "write"
    /\ LET p == [pipe EXCEPT !.phase = "write"]
       IN  IF ~pipe.dir_ok
           THEN pipe' = Returned(Issue(p, <<>>, NoPs), TRUE)
           ELSE \/ pipe' = Thrown(Issue(p, <<>>, NoPs))
                \/ \E n \in 0..Cardinality(pipe.results), ps \in PsAnswers(pipe.loaded) :
                      pipe' = Returned(
                                [Issue(p, UnloadAllExceptChat(ps)
                                            \o <<Request("warm", "companion", "")>>, ps)
                                   EXCEPT !.written = n, !.restored = TRUE],
                                TRUE)
    /\ UNCHANGED notPipe

\* _pipeline_thread, lines 372-376: callback(success, output_dir, summary),
\* then the finally clause.
PipelineCallback ==
    /\ pipe.pc = "callback"
    /\ pipe' = [pipe EXCEPT !.pc = "done", !.reported = pipe.result]
    /\ UNCHANGED notPipe

\* Another client loads a model while the pipeline runs.
ServerLoad(m) ==
    /\ pipe.pc \notin {"idle", "done"}
    /\ m \notin pipe.loaded
    /\ pipe' = [pipe EXCEPT !.loaded = @ \cup {m}]
    /\ UNCHANGED notPipe

\* The server drops a model whose keep_alive has run out.
ServerExpire(m) ==
    /\ pipe.pc \notin {"idle", "done"}
    /\ m \in pipe.loaded
    /\ pipe' = [pipe EXCEPT !.loaded = @ \ {m}]
    /\ UNCHANGED notPipe

PipeNext ==
    \/ RunPipelineWarm
    \/ StageSpecCalls
    \/ StageArchitectCalls
    \/ StageBuildWarm
    \/ StageBuildStart
    \/ \E k \in Workers : RunWorker(k)
    \/ \E k \in Workers : WorkerReturn(k)
    \/ StageBuildJoin
    \/ StageReviewCalls
    \/ StageWriteCalls
    \/ PipelineCallback
    \/ \E m \in ChatModels : ServerLoad(m)
    \/ \E m \in ChatModels : ServerExpire(m)

\* ------------------------------------------------- the pipeline specification
vars == <<pvars, store, turn, dvars>>

PipelineNext ==
    \/ \E c \in Callers : BuildCheck(c)
    \/ \E c \in Callers : BuildSetMode(c)
    \/ \E c \in Callers : RunPipelineEnter(c)
    \/ \E c \in Callers : RunPipelineCreate(c)
    \/ \E c \in Callers : RunPipelineStart(c)
    \/ \E c \in Callers : BuildStatus(c)
    \/ \E c \in Callers, m \in {"companion", "code"} : SetModeCmd(c, m)
    \/ \E r \in RunIds : StageSpec(r)
    \/ \E r \in RunIds : StageArchitect(r)
    \/ \E r \in RunIds : StageBuild(r)
    \/ \E r \in RunIds : StageReview(r)
    \/ \E r \in RunIds : WriteBegin(r)
    \/ \E r \in RunIds : WriteFile(r)
    \/ \E r \in RunIds : WriteEnd(r)
    \/ \E r \in RunIds : Summary(r)
    \/ \E r \in RunIds : Callback(r)
    \/ \E r \in RunIds : Finally(r)

SpecPipeline == PipelineInit /\ [][PipelineNext]_vars

SpecTurn == TurnInit /\ [][TurnNext]_vars

SpecSession == SessInit /\ [][SessNext]_vars

SpecTasks == TasksInit /\ [][TasksNext]_vars

SpecProfile == ProfileInit /\ [][ProfileNext]_vars

SpecContext == CtxInit /\ [][CtxNext]_vars

SpecSanitize == SanInit /\ [][SanNext]_vars

SpecFiles == FilesInit /\ [][FilesNext]_vars

SpecRoute == RouteInit /\ [][RouteNext]_vars

\* A started thread runs, and a turn ends: every call of the inference client
\* and of a tool has a timeout and the tool loop is bounded.
WebFairness ==
    \A r \in Reqs :
        /\ WF_vars(WebStart(r))
        /\ WF_vars(WebTurnEnd(r))
        /\ WF_vars(WebLearn(r))
        /\ WF_vars(WebRelease(r))

SpecWeb == WebInit /\ [][WebNext]_vars /\ WebFairness

SpecPipe == PipeInit /\ [][PipeNext]_vars

\* ------------------------------------------------------- pipeline: the claims
IsPrefix(s, t) == Len(s) <= Len(t) /\ SubSeq(t, 1, Len(s)) = s

LiveRuns == {r \in RunIds : Live(r)}

\* C1: at most one pipeline thread is launched and unfinished at any time, and
\* a run_pipeline call goes on to create a thread only when no launched
\* pipeline is unfinished (otherwise it has returned False).
C1_AtMostOnePipeline ==
    /\ Cardinality(LiveRuns) <= 1
    /\ \A c \in Callers : cmd[c].pc = "rp_create" => LiveRuns = {}
    /\ \A c \in Callers : cmd[c].pc = "rp_start" => LiveRuns = {cmd[c].t}

\* A run_pipeline call has returned False while a pipeline thread was executing.
C1_Witness ==
    \E c \in Callers : cmd[c].ret = "false" /\ \E r \in RunIds : Executing(r)

\* C2: every answer of is_pipeline_running is True exactly when a launched
\* pipeline had not yet emptied the slot; the slot is taken exactly while such
\* a pipeline exists; and a run_pipeline call that returns False changes
\* neither the slot, nor the threads, nor the lock.
C2_Linearizable ==
    /\ [](obs.seen => (obs.val <=> obs.live))
    /\ [](lock = "free" => (active # 0 <=> LiveRuns # {}))
    /\ [][\A c \in Callers :
            (cmd[c].pc = "rp_enter" /\ cmd'[c].pc = "idle")
                => (cmd'[c].ret = "false" /\ UNCHANGED <<lock, active, runs, nextRun>>)]_vars

\* is_pipeline_running has answered True, a run_pipeline call has returned
\* False, and the pipeline has reached its callback.
C2_Witness ==
    /\ obs.seen /\ obs.val
    /\ \E c \in Callers : cmd[c].ret = "false"
    /\ \E r \in RunIds : runs[r].pc = "callback"

\* C3: in every pipeline run the stage calls made so far are an initial part
\* of spec, architect, build, review, write: fixed order, each stage at most
\* once, none retried.
C3_PhaseOrder ==
    \A r \in RunIds : IsPrefix(runs[r].phases, Phases)

\* A run has made all five stage calls.
C3_Witness ==
    \E r \in RunIds : runs[r].phases = Phases /\ runs[r].pc = "callback"

\* The stage whose artifact came back empty, if any ("" otherwise): the first
\* of spec, architect, build that has returned nothing.
EmptyStage(th) ==
    IF Len(th.phases) >= 1 /\ ~th.spec_ok THEN "spec"
    ELSE IF Len(th.phases) >= 2 /\ ~th.plan_ok THEN "architect"
    ELSE IF Len(th.phases) >= 3 /\ th.built = <<>> THEN "build"
    ELSE ""

\* C4: when the spec, architect or build stage has returned an empty artifact,
\* that stage is the last one called, nothing is written, and the callback, once
\* invoked, has got (False, None, reason of that stage).
C4_ShortCircuit ==
    \A r \in RunIds :
        LET th == runs[r]
        IN  (EmptyStage(th) # "" /\ ~th.raised) =>
                /\ th.phases[Len(th.phases)] = EmptyStage(th)
                /\ th.written = <<>>
                /\ th.pc \in {"callback", "finally"}
                /\ th.result = Failure(Reason(EmptyStage(th)))
                /\ (th.pc = "finally" => th.callbacks = 1)

\* The callback has been invoked after the architect returned no plan.
C4_Witness ==
    \E r \in RunIds :
        /\ runs[r].pc = "finally" /\ runs[r].callbacks = 1
        /\ runs[r].spec_ok /\ ~runs[r].plan_ok
        /\ runs[r].result.summary = "Architect failed to produce a plan."

\* C5: a pipeline thread that has ended has invoked its callback exactly once.
C5_CallbackExactlyOnce ==
    \A r \in RunIds : runs[r].pc = "done" => runs[r].callbacks = 1

\* C6: when no pipeline is launched and unfinished and no /build handler is
\* at work, the mode is not build.
C6_ModeRestored ==
    (LiveRuns = {} /\ InFlight = {}) => mode # "build"

\* Path containment by components: d is p or an ancestor of p.
Contains(d, p) == IsPrefix(SplitFrom(d, 1, <<>>), SplitFrom(p, 1, <<>>))

\* The files stage_write is to create: the resolved paths of the built files
\* that lie strictly under dir, in the order of the map.
RECURSIVE SafeFiles(_, _)
SafeFiles(dir, built) ==
    IF built = <<>> THEN <<>>
    ELSE LET full == FullPath(dir, Head(built))
         IN  (IF Contains(dir, full) /\ full # dir THEN <<full>> ELSE <<>>)
                 \o SafeFiles(dir, Tail(built))

C8_AtMostMaxToolLoops ==
    turn.inferCalls <= MAX_TOOL_LOOPS

\* C8 (amended): one process_message call issues one classification call and
\* at most MAX_TOOL_LOOPS generation calls, MAX_TOOL_LOOPS + 1 inference calls
\* at most, and the tool loop is left after MAX_TOOL_LOOPS iterations at the latest.
C8_BoundedInference ==
    /\ turn.genCalls <= MAX_TOOL_LOOPS
    /\ turn.inferCalls <= MAX_TOOL_LOOPS + 1
    /\ turn.inferCalls <= turn.genCalls + 1
    /\ turn.loop_num <= MAX_TOOL_LOOPS
    /\ turn.pc \in {"generate", "exec"} => turn.loop_num < MAX_TOOL_LOOPS
    /\ turn.pc \in {"save", "returned"} => turn.genCalls >= 1

\* A turn in which every response held a tool call has returned after
\* MAX_TOOL_LOOPS + 1 inference calls.
C8_Witness ==
    turn.pc = "returned" /\ turn.inferCalls = MAX_TOOL_LOOPS + 1

\* The text an earlier response leaves in the returned text: its stripped
\* text and the line break the loop puts after it, nothing when it is blank.
RECURSIVE StrippedTexts(_)
StrippedTexts(rs) ==
    IF rs = <<>> THEN <<>>
    ELSE LET c == ParseToolCalls(Head(rs)).cleaned
         IN  (IF c # <<>> THEN c \o <<NL>> ELSE <<>>) \o StrippedTexts(Tail(rs))

\* The tool loop has ended because a response held no tool call.
EndedWithoutToolCall ==
    turn.pc \in {"save", "returned"} /\ ParseToolCalls(turn.full_text).calls = <<>>

\* The returned text is the stripped texts of the earlier responses, in
\* order, followed by the final response.
C9_Concatenation ==
    EndedWithoutToolCall =>
        turn.returned = StrippedTexts(turn.responses) \o turn.full_text

\* C9: when the tool loop ends because a response holds no tool call, the
\* returned text is the tool-stripped texts of the earlier responses in order
\* (each closed by a line break) followed by the final response, and no tool
\* call can be parsed from the part that comes from the earlier responses.
C9_ReturnedText ==
    /\ C9_Concatenation
    /\ EndedWithoutToolCall =>
          \A n \in 0..Len(turn.returned) - Len(turn.full_text) :
              ParseToolCalls(SubSeq(turn.returned, 1, n)).calls = <<>>

\* The rows the process_message call has saved, in id order.
OwnRows == SelectSeq(store, LAMBDA m : m.by = "turn")

\* The rows of the executed tool calls: "Called <name>", then the first 500
\* characters of the result.
RECURSIVE ToolRows(_)
ToolRows(log) ==
    IF log = <<>> THEN <<>>
    ELSE <<[role |-> "tool", content |-> <<"Called ", Head(log).name>>],
           [role |-> "tool_result",
            content |-> [head |-> Head(log).result.head,
                         len |-> IF Head(log).result.len > 500 THEN 500
                                 ELSE Head(log).result.len]]>>
         \o ToolRows(Tail(log))

SameRows(rows, expected) ==
    /\ Len(rows) = Len(expected)
    /\ \A i \in 1..Len(rows) : rows[i].role = expected[i].role
    /\ \A i \in 1..Len(rows) : rows[i].content = expected[i].content

\* The rows saved so far are the user row, then the two rows of each executed
\* tool call in execution order, then (once returned) the assistant row, with
\* increasing ids.
C10_RowsInOrder ==
    /\ \A i \in 1..Len(store) : store[i].id = i
    /\ turn.pc \in {"classify", "generate", "exec", "save", "raised"} =>
          SameRows(OwnRows, <<[role |-> "user", content |-> <<"u">>]>>
                            \o ToolRows(turn.execLog))
    /\ turn.pc = "returned" =>
          SameRows(OwnRows, <<[role |-> "user", content |-> <<"u">>]>>
                            \o ToolRows(turn.execLog)
                            \o <<[role |-> "assistant", content |-> turn.returned]>>)

\* C10: the rows saved by a process_message call that has ended are one user
\* row, the tool and tool_result rows of the executed calls in order, and one
\* assistant row saved last.
C10_MessageOrder ==
    /\ C10_RowsInOrder
    /\ turn.pc \in {"returned", "raised"} =>
          /\ Len(OwnRows) = 2 * Len(turn.execLog) + 2
          /\ OwnRows[Len(OwnRows)].role = "assistant"

\* ------------------------------------------------------- session: the claims
\* C11: the messages table only grows at its end, and the ids of its rows
\* are strictly increasing: every row saved, by the turn or by the pipeline
\* callback, has an id greater than all the ids before it, and no step changes
\* or removes a row.
C11_AppendOnly ==
    /\ [](\A i \in 2..Len(store) : store[i - 1].id < store[i].id)
    /\ [][IsPrefix(store, store')]_vars

\* The pipeline callback has saved a row between two rows of the turn.
C11_Witness ==
    \E i \in 2..Len(store) - 1 :
        /\ store[i].by = "pipeline"
        /\ store[i - 1].by = "turn" /\ store[i + 1].by = "turn"

\* C12: in every session the covers_up_to values of the summaries are
\* strictly increasing in insertion order.
C12_CoversIncreasing ==
    \A i, j \in 1..Len(summaries) :
        (i < j /\ summaries[i].session_id = summaries[j].session_id)
            => summaries[i].covers_up_to < summaries[j].covers_up_to

\* The id of the session's last message among the first n rows (0: none).
RECURSIVE LastMessageId(_, _, _)
LastMessageId(st, s, n) ==
    IF n = 0 THEN 0
    ELSE IF st[n].session_id = s THEN st[n].id
    ELSE LastMessageId(st, s, n - 1)

\* The session has a summary and no message newer than the read of the pass
\* that saved its latest one.
RECURSIVE NothingNew(_, _, _)
NothingNew(st, sm, s) ==
    IF sm = <<>> THEN FALSE
    ELSE IF sm[Len(sm)].session_id = s
         THEN LastMessageId(st, s, Len(st)) = LastMessageId(st, s, sm[Len(sm)].readAt)
         ELSE NothingNew(st, SubSeq(sm, 1, Len(sm) - 1), s)

\* The end of a pass that had read messages: with a non-blank answer exactly
\* one summary is added, covering the last message that was unsummarized at
\* the read; with a blank answer none is.
PassEnd(s, answer, readAt) ==
    IF Strip(answer) # <<>>
    THEN /\ Len(summaries') = Len(summaries) + 1
         /\ SubSeq(summaries', 1, Len(summaries)) = summaries
         /\ summaries'[Len(summaries')].session_id = s
         /\ summaries'[Len(summaries')].covers_up_to = LastMessageId(store, s, readAt)
    ELSE summaries' = summaries

\* C13: a summarizer pass that has read messages (20 or more in particular)
\* and got a non-blank answer adds exactly one summary, whose covers_up_to is
\* the id of the last message unsummarized at its read; a pass that starts
\* when no message has come since the read of the pass behind the latest
\* summary reads nothing and adds nothing; and the periodic loop starts a
\* pass, and so adds a summary, only after counting 20 unsummarized messages.
C13_SummarizerPass ==
    /\ [][\A s \in Sessions :
            (sess.worker[s].pc = "gen" /\ sess'.worker[s].pc # "gen")
                => PassEnd(s, sess'.answer, sess.worker[s].readAt)]_vars
    /\ [][(sess.pc = "force_gen" /\ sess'.pc # "force_gen")
                => PassEnd(sess.sid, sess'.answer, sess.readAt)]_vars
    /\ [][\A s \in Sessions :
            (sess.worker[s].pc = "summarize" /\ sess'.worker[s].pc # "summarize"
                /\ NothingNew(store, summaries, s))
                => (sess'.worker[s].pc = "wait" /\ summaries' = summaries)]_vars
    /\ [][(sess.pc = "force" /\ sess'.pc # "force"
                /\ NothingNew(store, summaries, sess.sid))
                => (sess'.pc # "force_gen" /\ summaries' = summaries)]_vars
    /\ [][\A s \in Sessions :
            (sess.worker[s].pc = "wait"
                /\ CountUnsummarized(store, summaries, s) < SUMMARY_INTERVAL)
                => sess'.worker[s].pc \in {"wait", "stopped"}]_vars

\* The loop has summarized the first 20 messages of the session in one
\* summary that covers the last of them, and the pass forced at the end of the
\* program, with no message since, has read nothing and added nothing.
C13_Witness ==
    /\ sess.pc = "exited" /\ sess.nread = 0
    /\ Len(summaries) = 1
    /\ summaries[1].by = "worker" /\ summaries[1].nread = SUMMARY_INTERVAL
    /\ summaries[1].covers_up_to = store[Len(store)].id

\* --------------------------------------------------------- tasks: the claims
ActiveTasks(tk) == {i \in 1..Len(tk) : tk[i].status = "active"}

\* C14: at most one task is active in every state; upsert_task changes the
\* title of the active task when there is one, adding no row, and adds one
\* active row only when there is none; complete_active_task adds no row and
\* leaves no task active.
C14_OneActiveTask ==
    /\ [](Cardinality(ActiveTasks(tasks)) <= 1)
    /\ [][learn'.op = "upsert_task" =>
            IF ActiveTasks(tasks) # {}
            THEN /\ Len(tasks') = Len(tasks)
                 /\ ActiveTasks(tasks') = ActiveTasks(tasks)
                 /\ \A i \in ActiveTasks(tasks) : tasks'[i].title = learn'.task_line
                 /\ \A i \in 1..Len(tasks) : i \notin ActiveTasks(tasks) => tasks'[i] = tasks[i]
            ELSE /\ Len(tasks') = Len(tasks) + 1
                 /\ SubSeq(tasks', 1, Len(tasks)) = tasks
                 /\ tasks'[Len(tasks')].status = "active"
                 /\ tasks'[Len(tasks')].title = learn'.task_line]_vars
    /\ [][learn'.op = "complete_active_task" =>
            (Len(tasks') = Len(tasks) /\ ActiveTasks(tasks') = {})]_vars

\* A task was completed, another one was inserted, and the last call has
\* updated the title of that active task.
C14_Witness ==
    /\ Len(tasks) = 2
    /\ tasks[1].status = "done" /\ tasks[1].title = "t1"
    /\ tasks[2].status = "active" /\ tasks[2].title = "t1"
    /\ learn.op = "upsert_task" /\ learn.task_line = "t1"

\* ------------------------------------------------------- profile: the claims
\* The rows of a (category, key).
FactRows(pr, category, key) ==
    {i \in 1..Len(pr) : pr[i].category = category /\ pr[i].key = key}

\* C15: there is never more than one fact per (category, key); save_fact on
\* a new (category, key) adds the fact; on an existing one it replaces value
\* and confidence exactly when the new confidence is greater than or equal to
\* the stored one, and otherwise changes nothing; no other fact is touched.
C15_SaveFact ==
    /\ [](\A i, j \in 1..Len(profile) :
            (profile[i].category = profile[j].category /\ profile[i].key = profile[j].key)
                => i = j)
    /\ [][learn'.pc = "save_fact" =>
            LET old == FactRows(profile, learn'.category, learn'.key)
                new == [category |-> learn'.category, key |-> learn'.key,
                        value |-> learn'.value, confidence |-> learn'.confidence]
            IN  IF old = {}
                THEN profile' = Append(profile, new)
                ELSE /\ Len(profile') = Len(profile)
                     /\ \A i \in 1..Len(profile) :
                           profile'[i] = IF i \in old
                                            /\ learn'.confidence >= profile[i].confidence
                                         THEN new ELSE profile[i]]_vars

\* The example of the specification: Alex at 0.9 is stored, and the last
\* call, Ally at 0.4, has left it as it was.
C15_Witness ==
    /\ learn.pc = "save_fact" /\ learn.value = "Ally" /\ learn.confidence = 4
    /\ learn.category = "name" /\ learn.key = "name"
    /\ \E i \in 1..Len(profile) :
          /\ profile[i].category = "name" /\ profile[i].key = "name"
          /\ profile[i].value = "Alex" /\ profile[i].confidence = 9

\* ------------------------------------------------------- context: the claims
\* The sum of the token estimates of the messages from the i-th on.
RECURSIVE TokenSum(_, _)
TokenSum(msgs, i) ==
    IF i > Len(msgs) THEN 0 ELSE EstimateTokens(msgs[i].len) + TokenSum(msgs, i + 1)

\* What remains of the budget after the identity, 0 when it took it all.
Remaining(identity_len) ==
    IF EstimateTokens(identity_len) >= MAX_CONTEXT_TOKENS THEN 0
    ELSE MAX_CONTEXT_TOKENS - EstimateTokens(identity_len)

\* C16: the messages returned start with the identity briefing; their token
\* estimates sum to at most MAX_CONTEXT_TOKENS plus the estimate of the
\* identity; and the summary, the task and the recent messages together take
\* at most what remains of the budget after the identity (nothing when the
\* identity alone uses it up).
C16_ContextBudget ==
    ctx.pc = "built" =>
        /\ ctx.messages[1] = [part |-> "identity", len |-> ctx.identity_len]
        /\ \A i \in 2..Len(ctx.messages) : ctx.messages[i].part # "identity"
        /\ TokenSum(ctx.messages, 1)
              <= MAX_CONTEXT_TOKENS + EstimateTokens(ctx.identity_len)
        /\ TokenSum(ctx.messages, 2) <= Remaining(ctx.identity_len)

\* An identity briefing larger than the budget was returned alone, the
\* total above the budget, though the store held a summary, an active task
\* and messages.
C16_Witness ==
    /\ ctx.pc = "built"
    /\ EstimateTokens(ctx.identity_len) > MAX_CONTEXT_TOKENS
    /\ ctx.summary_len # -1 /\ ctx.title_len # -1 /\ ctx.recent # <<>>
    /\ Len(ctx.messages) = 1
    /\ TokenSum(ctx.messages, 1) > MAX_CONTEXT_TOKENS

\* ----------------------------------------------------- sanitizer: the claims
\* The characters of a piece (a run of x is given by three of them).
PieceChars(piece) ==
    CASE piece = TO -> <<"t", "o">>
      [] piece = OL -> <<"o", "l">>
      [] piece = AMP -> <<"&", "l", "t", ";">>
      [] piece = "&l" -> <<"&", "l">>
      [] piece = "&lt" -> <<"&", "l", "t">>
      [] piece = DOTS -> <<".", ".", ".">>
      [] piece \in {FILL, "xx."} -> <<"x", "x", "x">>
      [] OTHER -> <<piece>>

\* The text, character by character.
RECURSIVE CharsOf(_)
CharsOf(text) ==
    IF text = <<>> THEN <<>> ELSE PieceChars(Head(text)) \o CharsOf(Tail(text))

\* sub in text
HasSub(text, sub) ==
    \E i \in 1..Len(text) : StartsWith(SubSeq(text, i, Len(text)), sub)

\* C17: the output of the sanitizer holds no '{', no '}', no '<tool' and no
\* '</tool', whatever the input.
C17_Sanitized ==
    san.pc = "sanitized" =>
        LET out == CharsOf(san.out)
        IN  /\ ~HasSub(out, <<"{">>)
            /\ ~HasSub(out, <<"}">>)
            /\ ~HasSub(out, <<"<", "t", "o", "o", "l">>)
            /\ ~HasSub(out, <<"<", "/", "t", "o", "o", "l">>)

\* A long text in which a tool tag appears only once the brace is removed
\* has been sanitized and cut.
C17_Witness ==
    /\ san.pc = "sanitized"
    /\ san.text = <<LT, LB, TO, OL, FILL>>
    /\ san.out = <<AMP, TO, OL, "xx.", DOTS>>

\* --------------------------------------------------- the file tools: claims
\* The components of a path after "." and ".." are resolved.
Comps(p) == Resolve(SplitFrom(p, 1, <<>>), <<>>)

\* The components of the home directory and of the three denied directories.
HomeComps == Comps(HomeDir)
DeniedComps == {Comps(d) : d \in DeniedPaths}

\* The resolved path of each first argument line, by working directory.
ResolvedArg ==
    [cwd \in Cwds |-> [p \in PathArgs |-> RealPath(PathJoin(cwd, ExpandUser(p)))]]

\* The resolved path of the first argument line of the last call.
CallPath(f) == ResolvedArg[f.cwd][f.lines[1]]

\* The paths the tools may write: the home directory and what lies under it,
\* outside ~/.ssh, ~/.gnupg and ~/.config/autostart.
WriteAllowed(p) ==
    LET c == Comps(p)
    IN  /\ IsPrefix(HomeComps, c)
        /\ \A d \in DeniedComps : ~IsPrefix(d, c)

AllowedPaths == {p \in FsPaths : WriteAllowed(p)}

\* The directory that holds each entry.
DirOf == [p \in FsPaths |-> Dirname(p)]

\* The lines a tool needs before it looks at the path.
LinesNeeded(tool) == IF tool = "write_file" THEN 2 ELSE 3

\* A call changed nothing but the file at the resolved path and, when it was
\* missing, the directory that holds it.
OnlyTarget(f, g, target) ==
    LET dir == DirOf[target]
    IN  \A p \in FsPaths :
            g.files[p] # f.files[p] =>
                \/ p = target
                \/ /\ p = dir
                   /\ f.files[p].kind = "none"
                   /\ g.files[p].kind = "dir"

\* C18 (as stated): write_file and edit_file modify a file only if its
\* resolved path is $HOME or under it and is not under ~/.ssh, ~/.gnupg or
\* ~/.config/autostart; for any other path they return a string beginning
\* "Access denied" and leave the filesystem unchanged.
C18_AccessDeniedAlways ==
    [][fs'.pc = "returned" =>
          LET target == CallPath(fs')
              allowed == target \in AllowedPaths
          IN  /\ (fs'.files # fs.files => allowed /\ OnlyTarget(fs, fs', target))
              /\ (~allowed =>
                     /\ fs'.files = fs.files
                     /\ fs'.result[1] = "Access denied")]_vars

\* C18 (amended): write_file and edit_file modify a file only if its resolved
\* path is $HOME or under it and is not under ~/.ssh, ~/.gnupg or
\* ~/.config/autostart; for any other path they leave the filesystem
\* unchanged and return a string beginning "Access denied" when the arguments
\* have the lines the tool needs (two for write_file, three for edit_file),
\* and the usage text when they have fewer.
C18_PathGuard ==
    [][fs'.pc = "returned" =>
          LET target == CallPath(fs')
              allowed == target \in AllowedPaths
          IN  /\ (fs'.files # fs.files => allowed /\ OnlyTarget(fs, fs', target))
              /\ (~allowed =>
                     /\ fs'.files = fs.files
                     /\ (IF Len(fs'.lines) >= LinesNeeded(fs'.tool)
                         THEN fs'.result[1] = "Access denied"
                         ELSE fs'.result[1] = "Usage"))]_vars

\* A write to a key in ~/.ssh has been refused and the key is as it was,
\* after a write to the sibling ~/.sshx went through.
C18_Witness ==
    /\ fs.pc = "returned"
    /\ fs.tool = "write_file"
    /\ fs.lines = <<HomeDir \o <<SEP, ".ssh", SEP, "k">>, <<"b">>>>
    /\ fs.result[1] = "Access denied"
    /\ fs.files[HomeDir \o <<SEP, ".ssh", SEP, "k">>] = FileEntry(<<"a", "a">>)
    /\ fs.files[HomeDir \o <<SEP, ".ssh", "x", SEP, "k">>] = FileEntry(<<"b">>)
    /\ fs.files[HomeDir \o <<SEP, ".ssh", "x">>] = DirEntry

\* ------------------------------------------------- process_message: failures
\* C19: process_message never raises: a call that has begun is on its way to
\* returning a response, a failure of the inference backend included, and a
\* call that has ended has saved its response as the last row, an assistant
\* message.
C19_NeverRaises ==
    /\ turn.pc \in {"idle", "classify", "generate", "exec", "save", "returned"}
    /\ (turn.pc = "returned" =>
           /\ store # <<>>
           /\ store[Len(store)].role = "assistant"
           /\ store[Len(store)].content = turn.returned)

\* ------------------------------------------------------ execute_tool: claims
\* C20: execute_tool never raises: for an unregistered name it returns
\* (False, "Unknown tool: <name>") without calling any handler; when the
\* handler raises it returns (False, "Tool error: <msg>"); otherwise it returns
\* (True, the handler's result as a string). No turn ends by an exception once
\* a tool has been executed.
C20_ExecuteTool ==
    /\ \A i \in 1..Len(turn.execLog) :
          LET e == turn.execLog[i]
          IN  IF e.name \notin Registered
              THEN /\ e.outcome = NotCalled
                   /\ ~e.result.called
                   /\ ~e.result.ok
                   /\ e.result.head = "Unknown tool: "
                   /\ e.result.len = 14 + 1
              ELSE /\ e.result.called
                   /\ e.outcome \in HandlerOutcomes
                   /\ (IF e.outcome.kind = "raise"
                       THEN ~e.result.ok /\ e.result.head = "Tool error: "
                       ELSE /\ e.result.ok
                            /\ e.result.head = ""
                            /\ e.result.len = e.outcome.len)
    /\ (turn.execLog # <<>> => turn.pc # "raised")

\* One turn has executed an unregistered tool, a handler that raised and a
\* handler that returned.
C20_Witness ==
    /\ \E i \in 1..Len(turn.execLog) : turn.execLog[i].name \notin Registered
    /\ \E i \in 1..Len(turn.execLog) : turn.execLog[i].outcome.kind = "raise"
    /\ \E i \in 1..Len(turn.execLog) : turn.execLog[i].result.ok

\* --------------------------------------------------------- the router: claims
\* C21: pick_model returns companion when the mode is companion and the
\* category is companion, returns cloud when the category is cloud or
\* code_beast and the cloud is available, and otherwise maps companion to
\* companion, code_simple to fast_code and code_complex to worker_heavy; it
\* always returns a key of the model roster.
C21_PickModel ==
    route.pc = "picked" =>
        /\ (mode = "companion" /\ route.category = "companion" =>
               route.model_key = "companion")
        /\ (route.category \in {"cloud", "code_beast"} /\ route.cloud_ok =>
               route.model_key = "cloud")
        /\ (route.category = "companion" => route.model_key = "companion")
        /\ (route.category = "code_simple" => route.model_key = "fast_code")
        /\ (route.category = "code_complex" => route.model_key = "worker_heavy")
        /\ route.model_key \in Roster

\* In code mode a reply naming code_simple inside other words has been
\* routed to fast_code.
C21_Witness ==
    /\ route.pc = "picked"
    /\ mode = "code"
    /\ route.reply = <<"code", "code_simple">>
    /\ route.model_key = "fast_code"

\* C22 (as stated): when the cloud is not available, pick_model maps cloud to
\* beast and code_beast to worker_heavy.
C22_OfflineAsStated ==
    (route.pc = "picked" /\ ~route.cloud_ok) =>
        /\ (route.category = "cloud" => route.model_key = "beast")
        /\ (route.category = "code_beast" => route.model_key = "worker_heavy")

\* C22 (amended): when the cloud is not available, pick_model maps code_beast
\* to beast and cloud to worker_heavy.
C22_OfflineFallback ==
    (route.pc = "picked" /\ ~route.cloud_ok) =>
        /\ (route.category = "code_beast" => route.model_key = "beast")
        /\ (route.category = "cloud" => route.model_key = "worker_heavy")

\* Without the cloud a reply classified as cloud has been routed to
\* worker_heavy.
C22_Witness ==
    /\ route.pc = "picked"
    /\ ~route.cloud_ok
    /\ route.category = "cloud"
    /\ route.reply = <<"CLOUD", "code_beast">>
    /\ route.model_key = "worker_heavy"

\* ----------------------------------------------- the web chat endpoint: claims
\* C23: through the web chat endpoint at most one process_message call is
\* live at any moment; a request that finds the lock taken is answered with
\* 429 without calling process_message; and the lock is released on every
\* exit path of the turn, an exception included, so that a lock that is held
\* is eventually free for a later request.
C23_OneTurnAtATime ==
    /\ [](/\ web.live <= 1
          /\ \A r \in Reqs :
                /\ (web.req[r].pc = "turn" => web.lock = r /\ web.live = 1)
                /\ (web.req[r].pc = "429" => ~web.req[r].called)
                /\ (web.req[r].pc = "released" =>
                       web.req[r].called /\ web.req[r].out \in {"done", "error"}))
    /\ [][\A r \in Reqs :
             (web.req[r].pc = "ready" /\ web'.req[r].pc # "ready" /\ web.lock # 0) =>
                 (web'.req[r].pc = "429" /\ web' = [web EXCEPT !.req[r].pc = "429"])]_vars
    /\ ((web.lock # 0) ~> (web.lock = 0))

\* One request was rejected while a turn was in progress, that turn ended by
\* an exception, and a later request was then accepted and is in its turn.
C23_Witness ==
    /\ web.req[1].pc = "released" /\ web.req[1].out = "error"
    /\ web.req[2].pc = "429"
    /\ web.req[3].pc = "turn"

\* ------------------------------------------------ the tool loop: its last exit
\* The tool loop has ended because MAX_TOOL_LOOPS responses held a tool call.
LoopExhausted ==
    turn.pc \in {"save", "returned"} /\ turn.loop_num = MAX_TOOL_LOOPS

\* C24: when every one of the MAX_TOOL_LOOPS responses of a turn holds a tool
\* call, process_message returns the accumulated text as it is: the
\* tool-stripped texts of the iterations in order (each closed by a line
\* break), each once, and no tool call can be parsed from it.
C24_LoopExhausted ==
    LoopExhausted =>
        /\ turn.returned = StrippedTexts(turn.responses)
        /\ ParseToolCalls(turn.returned).calls = <<>>

\* ---------------------------------------------- the tool loop: order of calls
\* The last n executions of the turn, formatted for the model.
LastResults(log, n) ==
    [i \in 1..n |->
        FormatToolResult(log[Len(log) - n + i].name, log[Len(log) - n + i].result)]

\* C25: the tool calls parsed from one response are executed one at a time in
\* their order of appearance in the text; the next inference call is issued
\* only after the last of them has returned, on the previous message list
\* extended by the assistant's raw reply and one user message "Tool results:"
\* carrying the formatted results in the same order.
C25_SequentialTools ==
    [][LET calls == ParseToolCalls(turn.full_text).calls
           done == Len(turn'.execLog) - Len(turn.execLog)
       IN  /\ done \in {0, 1}
           /\ (done = 1 =>
                  /\ turn.pc = "exec" /\ turn'.pc = "exec"
                  /\ turn.k <= Len(calls) /\ turn'.k = turn.k + 1
                  /\ turn'.execLog[Len(turn'.execLog)].name = calls[turn.k].name
                  /\ turn'.messages = turn.messages)
           /\ (turn'.genCalls > turn.genCalls =>
                  /\ turn.pc = "generate"
                  /\ turn'.messages = turn.messages
                  /\ (turn.loop_num = 0 => turn.messages = Context)
                  /\ (turn.loop_num > 0 =>
                         /\ turn.k = 1 /\ turn.pending = <<>>
                         /\ Len(turn.messages) = Len(Context) + 2 * turn.loop_num))
           /\ (turn'.messages # turn.messages /\ turn.pc # "classify" =>
                  /\ turn.pc = "exec" /\ turn.k = Len(calls) + 1
                  /\ turn'.messages =
                         turn.messages \o
                         <<[role |-> "assistant", content |-> turn.full_text],
                           [role |-> "user",
                            content |-> [head |-> "Tool results:",
                                         results |-> LastResults(turn.execLog,
                                                                 Len(calls))]]>>)]_vars

\* A response with two calls has been handled: a was executed first and
\* returned, b second and is not registered, and the next inference call is
\* about to be issued on the context, the raw reply and the two results.
C25_Witness ==
    /\ turn.pc = "generate"
    /\ turn.responses = <<RespTwoCalls>>
    /\ Len(turn.messages) = 3
    /\ turn.messages[2] = [role |-> "assistant", content |-> RespTwoCalls]
    /\ turn.messages[3].content.head = "Tool results:"
    /\ Len(turn.messages[3].content.results) = 2
    /\ turn.messages[3].content.results[1].name = "a"
    /\ turn.messages[3].content.results[1].head = ""
    /\ turn.messages[3].content.results[2].name = "b"
    /\ turn.messages[3].content.results[2].head = "Unknown tool: "

\* ------------------------------------------ the model server: the claims
\* C26: a review output that cannot be parsed is not fatal: the review counts
\* as verdict pass, the write phase is the next thing the run does, and the
\* run ends with its callback having reported success.
C26_UnparsedReviewNotFatal ==
    (pipe.review = "unparsed") =>
        /\ pipe.verdict = "pass"
        /\ pipe.pc \in {"write", "callback", "done"}
        /\ ((pipe.pc \in {"callback", "done"}) => (pipe.phase = "write"))
        /\ ((pipe.pc = "callback") => (pipe.result = "success"))
        /\ ((pipe.pc = "done") => (pipe.reported = "success"))

\* The requests that restore chat: an unload for each model the server lists
\* but the router, then the warming of the companion model.
RestoreRequests(ps) ==
    UnloadAllExceptChat(ps) \o <<Request("warm", "companion", "")>>

\* C27: every run that reaches the write phase restores chat before its
\* callback fires: when the write phase is over, whether it wrote files,
\* wrote none or refused output_dir, its last requests were the unloading of
\* every model but the router followed by the warming of the companion.
C27_ChatRestored ==
    (pipe.phase = "write" /\ pipe.pc \in {"callback", "done"}) =>
        /\ pipe.ps.called
        /\ pipe.last = RestoreRequests(pipe.ps)

\* The models for which the last step of the pipeline sent an unload.
Unloaded(p) == {p.last[j].model : j \in {i \in 1..Len(p.last) : p.last[i].op = "unload"}}

\* C28: the pipeline never unloads the router model: when the run is launched
\* and phase 1 has not begun, the one request made is the warming of the
\* router; a step that has the list of resident models sends an unload for
\* every listed model but the router; and no step sends an unload whose
\* target is the router.
C28_RouterStaysLoaded ==
    /\ ((pipe.pc = "spec") => (pipe.last = <<Request("warm", "router", "")>>))
    /\ ((pipe.ps.called /\ pipe.ps.ok) =>
          (\A i \in 1..Len(pipe.ps.models) :
              (pipe.ps.models[i] # "router") => (pipe.ps.models[i] \in Unloaded(pipe))))
    /\ "router" \notin Unloaded(pipe)

\* C28 witness: the server lists the router and two other models, and the
\* step unloads those two and the model it used.
C28_Witness ==
    /\ pipe.ps.called
    /\ pipe.ps.ok
    /\ pipe.ps.models = <<"router", "companion", "beast">>
    /\ Unloaded(pipe) = {"companion", "beast", "fast_code"}

\* The model a one-model stage generates with.
StageModel(phase) == IF phase = "spec" THEN "fast_code" ELSE "beast"

\* Request i of the last step is answered by the unloading of its model.
UnloadFollows(p, i) ==
    /\ i < Len(p.last)
    /\ p.last[i + 1] = Request("unload", p.last[i].model, "")

\* C29: in the build phase both worker models are warmed before either worker
\* starts; the two workers run concurrently (both are started together and
\* neither waits for the other), each one walking its own file list in list
\* order; the worker models are unloaded only after both workers have
\* finished; and in the spec, architect and review phases the model used is
\* unloaded before the phase returns.
C29_BuildResidency ==
    /\ [](/\ ((\E k \in Workers : pipe.worker[k].pc = "running") =>
                 (Unloaded(pipe) \cap Workers = {}))
          /\ ((pipe.phase = "build" /\ pipe.pc \in {"review", "callback"}) =>
                 (/\ \A k \in Workers : pipe.worker[k].pc = "finished"
                  /\ pipe.last = <<Request("unload", "worker_heavy", ""),
                                   Request("unload", "worker_light", "")>>))
          /\ (\A k \in Workers :
                 (pipe.pc = "workers" /\ pipe.worker[k].pc = "running") =>
                     ENABLED (RunWorker(k) \/ WorkerReturn(k)))
          /\ ((pipe.phase \in {"spec", "architect", "review"}) =>
                 (\A i \in 1..Len(pipe.last) :
                     (pipe.last[i].op = "generate") =>
                         (/\ pipe.last[i].model = StageModel(pipe.phase)
                          /\ UnloadFollows(pipe, i))))
          /\ ((pipe.phase \in {"spec", "review"}) =>
                 (\E i \in 1..Len(pipe.last) : pipe.last[i].op = "generate")))
    /\ [][\A k \in Workers :
             /\ ((pipe.worker[k].pc = "new" /\ pipe'.worker[k].pc # "new") =>
                    (/\ \A j \in Workers : pipe'.worker[j].pc = "running"
                     /\ Len(pipe.last) >= 2
                     /\ {pipe.last[Len(pipe.last) - 1], pipe.last[Len(pipe.last)]}
                           = {Request("warm", j, "") : j \in Workers}))
             /\ ((pipe'.worker[k].pos # pipe.worker[k].pos) =>
                    (/\ pipe'.worker[k].pos = pipe.worker[k].pos + 1
                     /\ pipe'.last = <<Request("generate", k,
                                               TasksOf(pipe, k)[pipe'.worker[k].pos])>>
                     /\ \A j \in Workers \ {k} : pipe'.worker[j] = pipe.worker[j]))]_vars

\* C29 witness: both workers are in the middle of their lists of two files,
\* each having generated its first file.
C29_Witness ==
    /\ pipe.pc = "workers"
    /\ \A k \in Workers :
          /\ pipe.worker[k].pc = "running"
          /\ pipe.worker[k].pos = 1
          /\ Len(TasksOf(pipe, k)) = 2
    /\ pipe.heavy = <<"a", "b">>
    /\ pipe.light = <<"b", "a">>

\* ------------------------------------------------ the task tracker: the claims
\* The answer parsed in l reports a title: a TASK line that is neither empty
\* nor NONE in any case.
HasTitle(l) == l.task_line # "" /\ Upper(l.task_line) # "NONE"

\* C30 as stated: the tracker acts on the STATUS line of the answer: active
\* upserts the active task with the reported title, done marks the active
\* task done, and any other status changes no task.
C30_ActsOnStatus ==
    [][/\ ((learn'.status_line = "active") =>
              (tasks' = UpsertTask(tasks, learn'.task_line, "active")))
       /\ ((learn'.status_line = "done") => (tasks' = CompleteActiveTask(tasks)))
       /\ ((learn'.status_line \notin {"active", "done"}) => (tasks' = tasks))]_vars

\* C30: when the answer reports a title, the tracker acts on its STATUS line,
\* read in lower case: active upserts the active task with the reported
\* title, done marks the active task done, and any other status changes no
\* task; when the answer reports no title (no TASK line, an empty one or
\* NONE), no task is changed whatever the STATUS line says.
C30_ActsOnStatusWithTitle ==
    [][/\ ((HasTitle(learn') /\ learn'.status_line = "active") =>
              (/\ tasks' = UpsertTask(tasks, learn'.task_line, "active")
               /\ learn'.op = "upsert_task"))
       /\ ((HasTitle(learn') /\ learn'.status_line = "done") =>
              (/\ tasks' = CompleteActiveTask(tasks)
               /\ learn'.op = "complete_active_task"))
       /\ ((~HasTitle(learn') \/ learn'.status_line \notin {"active", "done"}) =>
              (tasks' = tasks /\ learn'.op = ""))]_vars

\* C30 witness: the first task was marked done, a second one was added, and
\* an answer without a title and with the status done has left it active.
C30_Witness ==
    /\ Len(tasks) = 2
    /\ tasks[1].status = "done"
    /\ tasks[2].status = "active" /\ tasks[2].title = "t2"
    /\ learn.pc = "checked"
    /\ learn.task_line = "NONE" /\ learn.status_line = "done" /\ learn.op = ""

\* ------------------------------------------------ the token estimate: claims
\* The smallest integer that is at least len / CHARS_PER_TOKEN.
CeilTokens(len) == (len + CHARS_PER_TOKEN - 1) \div CHARS_PER_TOKEN

\* len // CHARS_PER_TOKEN for a length that is not negative.
FloorTokens(len) == len \div CHARS_PER_TOKEN

\* The larger of two integers.
Larger(a, b) == IF a >= b THEN a ELSE b

\* C31 as stated: the token estimate stored with a message equals
\* max(1, ceil(len(content) / 4)).
C31_EstimateIsCeiling ==
    (ctx.pc \in {"saved", "built"}) =>
        (ctx.saved.token_estimate = Larger(1, CeilTokens(ctx.saved.len)))

\* C31: the token estimate stored with a message equals
\* max(1, floor(len(content) / 4)): the quotient is rounded down, so it is
\* the ceiling only when the length is a multiple of 4 or below 4.
C31_EstimateIsFloor ==
    (ctx.pc \in {"saved", "built"}) =>
        /\ ctx.saved.token_estimate = Larger(1, FloorTokens(ctx.saved.len))
        /\ ((ctx.saved.len % CHARS_PER_TOKEN = 0 \/ ctx.saved.len < CHARS_PER_TOKEN)
              <=> (ctx.saved.token_estimate = Larger(1, CeilTokens(ctx.saved.len))))

\* C31 witness: a message of 5 characters was stored with the estimate 1.
C31_Witness ==
    /\ ctx.pc = "saved"
    /\ ctx.saved.len = 5
    /\ ctx.saved.token_estimate = 1

\* ------------------------------------------- the recent messages: the claims
\* The messages of the context that are recent messages, in their order.
RecentPart(msgs) == SelectSeq(msgs, LAMBDA m : m.part = "recent")

\* The estimates of rows from..Len(recent) of the window, added up.
RECURSIVE SuffixCost(_, _)
SuffixCost(recent, from) ==
    IF from > Len(recent) THEN 0
    ELSE EstimateTokens(recent[from]) + SuffixCost(recent, from + 1)

\* What is left of the budget when the scan of the window starts: the budget
\* less the estimates of the messages put in the context before.
ScanBudget(msgs) ==
    MAX_CONTEXT_TOKENS
        - TokenSum(SelectSeq(msgs, LAMBDA m : m.part # "recent"), 1)

\* C32: the recent messages of the context are a contiguous suffix of the
\* window, in chronological order and after the other messages: their
\* estimates together are within what was left of the budget, and either the
\* whole window was taken or the next older row would have exceeded it; no
\* row older than a row left out is in the context.
C32_ContiguousSuffix ==
    (ctx.pc = "built") =>
        LET rec == RecentPart(ctx.messages)
            n == Len(ctx.recent)
            k == Len(rec)
            budget == ScanBudget(ctx.messages)
        IN  /\ k <= n
            /\ SubSeq(ctx.messages, Len(ctx.messages) - k + 1, Len(ctx.messages)) = rec
            /\ \A j \in 1..k :
                  /\ rec[j].row = n - k + j
                  /\ rec[j].len = ctx.recent[n - k + j]
            /\ ((k > 0) => (SuffixCost(ctx.recent, n - k + 1) <= budget))
            /\ ((k < n) => (SuffixCost(ctx.recent, n - k) > budget))

\* C32 witness: the newest row was taken, the one before it did not fit, and
\* the oldest row, which would have fitted, was left out with it.
C32_Witness ==
    /\ ctx.pc = "built"
    /\ Len(ctx.recent) = 3
    /\ Len(RecentPart(ctx.messages)) = 1
    /\ RecentPart(ctx.messages)[1].row = 3
    /\ EstimateTokens(ctx.recent[3]) + EstimateTokens(ctx.recent[1])
          <= ScanBudget(ctx.messages)

\* ------------------------------------------ the turn's user message: claims
\* C38: the message list built for the first inference call of a turn
\* contains the user message persisted at the start of that turn (the newest
\* row of the window), for every size of the identity briefing and of the
\* user message.
C38_UserMessageInContext ==
    (ctx.pc = "built") =>
        (\E i \in 1..Len(ctx.messages) :
            /\ ctx.messages[i].part = "recent"
            /\ ctx.messages[i].row = Len(ctx.recent)
            /\ ctx.messages[i].len = ctx.saved.len)

\* ---------------------------------------------------------------------------
\* The local backend: one chat call, its requests and the chunks it yields
\* ---------------------------------------------------------------------------

notChat == <<pvars, store, turn, summaries, sess, tasks, profile, learn, ctx, san, fs,
             route, web, pipe, call, wk, lt>>

\* The longest message list of a call.
MaxChat == 3

\* The roles of the messages the callers build: the router sends one user
\* message, the turn executor a context of system, user and assistant messages.
ChatRoles == {"system", "user", "assistant"}

\* The content of the message at position i: none, blanks only, or a text of
\* its own.
ChatContents(i) == {<<>>, <<" ">>, <<ToString(i)>>}

\* content.strip() is empty.
IsBlank(content) == \A k \in 1..Len(content) : content[k] = " "

\* The message lists of the callers: the classification prompt alone, or a
\* context that opens with the identity briefing.
ChatMessages ==
    UNION {{ms \in [1..n -> [role : ChatRoles, content : {<<>>, <<" ">>, <<"t">>}]] :
              \/ n = 1 /\ ms[1].role = "user" /\ ~IsBlank(ms[1].content)
              \/ ms[1].role = "system" /\ ~IsBlank(ms[1].content)} : n \in 1..MaxChat}

\* Every text is the text of its position.
Positioned(ms) ==
    [i \in 1..Len(ms) |->
        [role |-> ms[i].role,
         content |-> IF ms[i].content = <<"t">> THEN <<ToString(i)>> ELSE ms[i].content]]

\* The messages sent: blank ones dropped, neighbours of one role other than
\* system joined with a newline.
RECURSIVE Clean(_, _, _)
Clean(ms, i, clean) ==
    IF i > Len(ms) THEN clean
    ELSE IF IsBlank(ms[i].content) THEN Clean(ms, i + 1, clean)
    ELSE IF /\ clean # <<>>
            /\ clean[Len(clean)].role = ms[i].role
            /\ ms[i].role # "system"
         THEN Clean(ms, i + 1,
                    [clean EXCEPT ![Len(clean)].content = @ \o <<"\n">> \o ms[i].content])
         ELSE Clean(ms, i + 1, Append(clean, ms[i]))

\* A mutation of Fallback: the last system message and the first user message.
FallbackLastFirst(clean) ==
    LET system == SelectSeq(clean, LAMBDA m : m.role = "system")
        user == SelectSeq(clean, LAMBDA m : m.role = "user")
    IN  (IF system = <<>> THEN <<>> ELSE <<system[Len(system)]>>)
        \o (IF user = <<>> THEN <<>> ELSE <<user[1]>>)

\* The reduced context: the first system message, then the last user message.
Fallback(clean) ==
    LET system == SelectSeq(clean, LAMBDA m : m.role = "system")
        user == SelectSeq(clean, LAMBDA m : m.role = "user")
    IN  (IF system = <<>> THEN <<>> ELSE <<system[1]>>)
        \o (IF user = <<>> THEN <<>> ELSE <<user[Len(user)]>>)

\* The chunks of the backend.
Chunk(kind, text) == [kind |-> kind, text |-> text]
NoContextChunk == Chunk("notice", "No context to send.")
RetryingChunk(status) == Chunk("retrying", ToString(status))
FailChunk == Chunk("notice", "I hit an error. Try again or rephrase.")
ParseFailChunk == Chunk("notice", "Failed to parse response.")

\* What the first request meets: no answer, or the status of the reply.
PostErrors == {"ConnectionError", "Timeout", "Exception"}
Statuses == {200, 201, 404, 500}

\* What the retry meets: no answer, a status, or a body of 200 that is not JSON.
RetryOutcomes == {"Exception", "200", "200 no content", "200 not json", "500"}

\* A request to /api/chat.
Post(messages, stream) == [messages |-> messages, stream |-> stream]

ChatInit ==
    /\ lock = "free"
    /\ active = 0
    /\ mode = "companion"
    /\ cmd = [c \in Callers |-> IdleCmd]
    /\ runs = [r \in RunIds |-> NewThread]
    /\ nextRun = 0
    /\ obs = [seen |-> FALSE, val |-> FALSE, live |-> FALSE]
    /\ store = <<>>
    /\ turn = NoTurn
    /\ summaries = <<>>
    /\ sess = NoSess
    /\ tasks = <<>>
    /\ profile = <<>>
    /\ learn = NoLearn
    /\ ctx = NoCtx
    /\ san = NoSan
    /\ fs = NoFs
    /\ lt = [t \in Learners |-> NoLearner]
    /\ wk = [d \in {"summarizer", "heartbeat"} |-> NoDaemon]
    /\ call = NoCall
    /\ route = NoRoute
    /\ web = NoWeb
    /\ pipe = NoPipe
    /\ \E ms \in ChatMessages, stream \in BOOLEAN :
          chat = [NoChat EXCEPT !.pc = "called", !.stream = stream,
                                !.messages = Positioned(ms)]

\* _ollama_chat up to its first yield: the messages are cleaned and sent.
OllamaChatPost ==
    /\ chat.pc = "called"
    /\ LET clean == Clean(chat.messages, 1, <<>>)
           post == Post(clean, chat.stream)
       IN  IF clean = <<>>
           THEN chat' = [chat EXCEPT !.pc = "returned", !.out = <<NoContextChunk>>]
           ELSE \/ \E e \in PostErrors :
                      chat' = [chat EXCEPT !.pc = "returned", !.clean = clean,
                                           !.posts = <<post>>,
                                           !.out = <<Chunk("notice", e)>>]
                \/ \E status \in Statuses :
                      chat' = [chat EXCEPT
                                  !.pc = IF status = 200 THEN "reading" ELSE "retrying",
                                  !.clean = clean, !.posts = <<post>>, !.status = status,
                                  !.out = IF status = 200 THEN <<>>
                                          ELSE <<RetryingChunk(status)>>]
    /\ UNCHANGED notChat

\* _ollama_chat after the notice of a reply other than 200: one request with
\* the reduced context, not streamed, and its content or the fail chunk.
OllamaChatRetry ==
    /\ chat.pc = "retrying"
    /\ LET fallback == Fallback(chat.clean)
       IN  IF fallback = <<>>
           THEN chat' = [chat EXCEPT !.pc = "returned", !.out = Append(@, FailChunk)]
           ELSE \E r \in RetryOutcomes :
                   chat' = [chat EXCEPT
                              !.pc = "returned", !.retry = r,
                              !.posts = Append(@, Post(fallback, FALSE)),
                              !.out = Append(@, CASE r = "200" -> Chunk("content", "r2")
                                                  [] r = "200 no content" -> Chunk("content", "")
                                                  [] OTHER -> FailChunk)]
    /\ UNCHANGED notChat

\* _ollama_chat on a reply of 200: the chunks of the stream, or the content of
\* the body, or the notice that the body is not JSON; reading the stream can
\* raise.
OllamaChatRead ==
    /\ chat.pc = "reading"
    /\ \/ chat' = [chat EXCEPT !.pc = "returned", !.out = <<Chunk("content", "r1")>>]
       \/ /\ chat.stream
          /\ chat' = [chat EXCEPT !.pc = "raised"]
       \/ /\ ~chat.stream
          /\ chat' = [chat EXCEPT !.pc = "returned", !.out = <<ParseFailChunk>>]
    /\ UNCHANGED notChat

ChatNext ==
    \/ OllamaChatPost
    \/ OllamaChatRetry
    \/ OllamaChatRead

SpecChat == ChatInit /\ [][ChatNext]_vars

\* The first system message of a cleaned list and its last user message, those
\* there are, in this order.
Reduced(clean) ==
    LET firstSystem == {i \in 1..Len(clean) :
                          /\ clean[i].role = "system"
                          /\ \A j \in 1..(i - 1) : clean[j].role # "system"}
        lastUser == {i \in 1..Len(clean) :
                          /\ clean[i].role = "user"
                          /\ \A j \in (i + 1)..Len(clean) : clean[j].role # "user"}
        Only(S) == IF S = {} THEN <<>> ELSE <<clean[CHOOSE i \in S : TRUE]>>
    IN  Only(firstSystem) \o Only(lastUser)

\* C33: a chat call never sends more than one retry; a call whose first reply
\* is not 2xx has, when it returns, sent exactly one retry, not streamed, with
\* the first system message and the last user message of the cleaned list, and
\* has yielded after the notice the content of the retry when the retry
\* answered 200 with a JSON body, the fail chunk otherwise.
C33_RetryOnce ==
    /\ Len(chat.posts) <= 2
    /\ (chat.pc = "returned" /\ chat.status \notin {0} \cup 200..299) =>
          /\ Len(chat.posts) = 2
          /\ chat.posts[2] = Post(Reduced(chat.posts[1].messages), FALSE)
          /\ Len(chat.out) = 2
          /\ chat.out[1] = RetryingChunk(chat.status)
          /\ (chat.retry = "200") => (chat.out[2] = Chunk("content", "r2"))
          /\ (chat.retry = "200 no content") => (chat.out[2] = Chunk("content", ""))
          /\ (chat.retry \in {"Exception", "200 not json", "500"}) =>
                (chat.out[2] = FailChunk)

\* C33 witness: a call answered 500 whose cleaned list of three messages holds
\* two system messages and a user message has returned the content of its
\* retry, sent with two messages.
C33_Witness ==
    /\ chat.pc = "returned"
    /\ chat.status = 500
    /\ chat.retry = "200"
    /\ Len(chat.posts) = 2
    /\ Len(chat.posts[1].messages) = 3
    /\ Cardinality({i \in 1..3 : chat.posts[1].messages[i].role = "system"}) = 2
    /\ Len(chat.posts[2].messages) = 2
    /\ chat.out = <<RetryingChunk(500), Chunk("content", "r2")>>

\* ---------------------------------------------------------------------------
\* The built-in tools: the length of a result and of what the model is handed
\* ---------------------------------------------------------------------------

notCall == <<pvars, store, turn, summaries, sess, tasks, profile, learn, ctx, san, fs,
             route, web, pipe, chat, wk, lt>>

BuiltinTools == {"shell", "read_file", "write_file", "edit_file", "list_files", "python_exec"}

\* The limits of the tools.
OUTPUT_LIMIT == 8000
READ_LIMIT == 10000
LIST_LIMIT == 200

\* "\n... (truncated)"
MarkerLen == 16

\* "(exit code 0)"
ExitCodeLen == 13

\* The lengths of a text: blanks, then the text from its first to its last
\* character that is not blank, then blanks.
RawLen(t) == t.lead + t.body + t.trail

\* len(text.strip())
StripLen(t) == t.body

\* What a tool reads, by tool: the output of a command, the content of a file,
\* the entries of a directory (body counts entries of DirNameLen characters),
\* the content to write.
BodyLens == {0, 1, 7999, 8000, 8001, 9000, 10000, 10001, 12000}
EntryCounts == {0, 1, 100, 200, 201}
DirNameLen == 100
PathLen == 20
ToolInputs(name) ==
    CASE name \in {"shell", "python_exec"} ->
            {t \in [lead : {0, 3}, body : BodyLens, trail : {0, 1}] :
                (t.body = 0) => (t.lead = 0)}
      [] name = "read_file" -> [lead : {0}, body : BodyLens, trail : {0}]
      [] name = "list_files" -> [lead : {0}, body : EntryCounts, trail : {0}]
      [] OTHER -> [lead : {0}, body : BodyLens, trail : {0}]

\* The number of decimal digits of n.
Digits(n) == IF n < 10 THEN 1 ELSE IF n < 100 THEN 2 ELSE IF n < 1000 THEN 3
             ELSE IF n < 10000 THEN 4 ELSE 5

\* tool_shell and tool_python_exec: the output, or the exit code when it is
\* blank, cut at the limit with the marker, then stripped.
RunOutput(t) ==
    IF StripLen(t) = 0 THEN [len |-> ExitCodeLen, marked |-> FALSE]
    ELSE IF RawLen(t) > OUTPUT_LIMIT
         THEN [len |-> (OUTPUT_LIMIT - t.lead) + MarkerLen, marked |-> TRUE]
         ELSE [len |-> StripLen(t), marked |-> FALSE]

\* tool_read_file: the content, cut at its own limit with the marker.
ReadFile(t) ==
    IF RawLen(t) > READ_LIMIT
    THEN [len |-> READ_LIMIT + MarkerLen, marked |-> TRUE]
    ELSE [len |-> RawLen(t), marked |-> FALSE]

\* tool_write_file: "Written to {path} ({n} bytes)".
WriteFileResult(t) ==
    [len |-> 11 + PathLen + 2 + Digits(RawLen(t)) + 7, marked |-> FALSE]

\* tool_edit_file: "Edited {path}".
EditFileResult(t) == [len |-> 7 + PathLen, marked |-> FALSE]

\* tool_list_files: one line of two blanks and the name for each of the first
\* entries, joined by newlines, and a line that counts the others.
ListFiles(t) ==
    LET shown == IF t.body > LIST_LIMIT THEN LIST_LIMIT ELSE t.body
        lines == shown * (2 + DirNameLen) + (IF shown > 0 THEN shown - 1 ELSE 0)
        more == IF t.body > LIST_LIMIT THEN 1 + 10 + Digits(t.body - LIST_LIMIT) + 5 ELSE 0
    IN  [len |-> IF lines + more = 0 THEN 17 ELSE lines + more, marked |-> FALSE]

\* TOOLS[name]["func"](args)
ToolFunc(name, t) ==
    CASE name \in {"shell", "python_exec"} -> RunOutput(t)
      [] name = "read_file" -> ReadFile(t)
      [] name = "write_file" -> WriteFileResult(t)
      [] name = "edit_file" -> EditFileResult(t)
      [] name = "list_files" -> ListFiles(t)

\* '<tool_result name="{name}">{result}</tool_result>'
FormattedLen(name, len) == 19 + Len(name) + 2 + len + 14

ToolsInit ==
    /\ lock = "free"
    /\ active = 0
    /\ mode = "companion"
    /\ cmd = [c \in Callers |-> IdleCmd]
    /\ runs = [r \in RunIds |-> NewThread]
    /\ nextRun = 0
    /\ obs = [seen |-> FALSE, val |-> FALSE, live |-> FALSE]
    /\ store = <<>>
    /\ turn = NoTurn
    /\ summaries = <<>>
    /\ sess = NoSess
    /\ tasks = <<>>
    /\ profile = <<>>
    /\ learn = NoLearn
    /\ ctx = NoCtx
    /\ san = NoSan
    /\ fs = NoFs
    /\ lt = [t \in Learners |-> NoLearner]
    /\ wk = [d \in {"summarizer", "heartbeat"} |-> NoDaemon]
    /\ route = NoRoute
    /\ web = NoWeb
    /\ pipe = NoPipe
    /\ chat = NoChat
    /\ \E name \in BuiltinTools : \E t \in ToolInputs(name) :
          call = [NoCall EXCEPT !.pc = "parsed", !.name = name, !.input = t]

\* _generate_with_tools, line 270: execute_tool runs the tool.
RunBuiltin ==
    /\ call.pc = "parsed"
    /\ LET r == ToolFunc(call.name, call.input)
       IN  call' = [call EXCEPT !.pc = "executed", !.result = r.len, !.marked = r.marked]
    /\ UNCHANGED notCall

\* _generate_with_tools, lines 272-281: the result is formatted whole and
\* handed back in the next user message.
HandResult ==
    /\ call.pc = "executed"
    /\ call' = [call EXCEPT !.pc = "handed",
                            !.handed = FormattedLen(call.name, call.result)]
    /\ UNCHANGED notCall

ToolsNext ==
    \/ RunBuiltin
    \/ HandResult

SpecTools == ToolsInit /\ [][ToolsNext]_vars

\* C34: the result of a built-in tool handed back to the model is at most
\* 8,000 characters and the marker long, and is marked when what the tool read
\* was longer than 8,000 characters.
C34_ResultsCapped ==
    (call.pc = "handed") =>
        /\ call.result <= 8000 + MarkerLen
        /\ (call.name \in {"shell", "read_file", "python_exec"}
               /\ RawLen(call.input) > 8000) => call.marked

\* ---------------------------------------------------------------------------
\* The background workers: their loops and their stop events
\* ---------------------------------------------------------------------------

notWk == <<pvars, store, turn, summaries, sess, tasks, profile, learn, ctx, san, fs,
           route, web, pipe, chat, call, lt>>

\* bolt.main, lines 368-373: the two threads of a session.
Daemons == {"summarizer", "heartbeat"}

\* Cycles a worker may start in one behaviour.
MaxCycles == 2

\* The length of a wait, in ticks of the clock.
WaitTicks == 2

\* The positions inside a cycle.
CyclePcs == {"count", "summarize", "router", "companion"}

\* A mutation of Waiting: time.sleep, which the event does not interrupt.
WaitingAsleep(w) == w.left > 0

\* Event.wait(timeout) blocks while the event is clear and time is left.
Waiting(w) == ~w.stop_event /\ w.left > 0

WorkersInit ==
    /\ lock = "free"
    /\ active = 0
    /\ mode = "companion"
    /\ cmd = [c \in Callers |-> IdleCmd]
    /\ runs = [r \in RunIds |-> NewThread]
    /\ nextRun = 0
    /\ obs = [seen |-> FALSE, val |-> FALSE, live |-> FALSE]
    /\ store = <<>>
    /\ turn = NoTurn
    /\ summaries = <<>>
    /\ sess = NoSess
    /\ tasks = <<>>
    /\ profile = <<>>
    /\ learn = NoLearn
    /\ ctx = NoCtx
    /\ san = NoSan
    /\ fs = NoFs
    /\ lt = [t \in Learners |-> NoLearner]
    /\ route = NoRoute
    /\ web = NoWeb
    /\ pipe = NoPipe
    /\ chat = NoChat
    /\ call = NoCall
    /\ wk = [d \in Daemons |-> [NoDaemon EXCEPT !.pc = "created"]]

\* bolt.main, lines 369 and 373: start().
DaemonStart(d) ==
    /\ wk[d].pc = "created"
    /\ wk' = [wk EXCEPT ![d].pc = "test"]
    /\ UNCHANGED notWk

\* stop(), lines 41-42 and 135-136, called by the main thread on a started
\* worker (bolt.py 387, 432, 433; web.py 331).
DaemonStop(d) ==
    /\ wk[d].pc # "created"
    /\ ~wk[d].stop_event
    /\ wk' = [wk EXCEPT ![d].stop_event = TRUE]
    /\ UNCHANGED notWk

\* run, lines 45 and 139: the test of the loop; run returns when the event is
\* set, else a cycle starts.
DaemonTest(d) ==
    /\ wk[d].pc = "test"
    /\ wk[d].stop_event \/ wk[d].cycles < MaxCycles
    /\ wk' = [wk EXCEPT
                ![d].pc = IF wk[d].stop_event THEN "terminated"
                          ELSE IF d = "summarizer" THEN "count" ELSE "router",
                ![d].cycles = IF wk[d].stop_event THEN @ ELSE @ + 1]
    /\ UNCHANGED notWk

\* SummarizerWorker.run, lines 46-52: the count, below the threshold or at it,
\* or an exception that is logged; then _summarize or the wait.
SummarizerCount ==
    /\ wk["summarizer"].pc = "count"
    /\ \/ wk' = [wk EXCEPT !["summarizer"].pc = "summarize"]
       \/ wk' = [wk EXCEPT !["summarizer"].pc = "wait", !["summarizer"].left = WaitTicks]
    /\ UNCHANGED notWk

\* SummarizerWorker.run, lines 48-52: _summarize returns or raises within the
\* timeouts of its calls; the exception is logged; then the wait.
SummarizerSummarize ==
    /\ wk["summarizer"].pc = "summarize"
    /\ wk' = [wk EXCEPT !["summarizer"].pc = "wait", !["summarizer"].left = WaitTicks]
    /\ UNCHANGED notWk

\* HeartbeatWorker._pulse, lines 145-156: the ping of the router answers,
\* fails or times out.
PulseRouter ==
    /\ wk["heartbeat"].pc = "router"
    /\ wk' = [wk EXCEPT !["heartbeat"].pc = "companion"]
    /\ UNCHANGED notWk

\* HeartbeatWorker._pulse, then run, line 141: the ping of the companion, then
\* the wait.
PulseCompanion ==
    /\ wk["heartbeat"].pc = "companion"
    /\ wk' = [wk EXCEPT !["heartbeat"].pc = "wait", !["heartbeat"].left = WaitTicks]
    /\ UNCHANGED notWk

\* The clock ticks for a worker blocked in its wait.
Tick(d) ==
    /\ wk[d].pc = "wait"
    /\ Waiting(wk[d])
    /\ wk' = [wk EXCEPT ![d].left = @ - 1]
    /\ UNCHANGED notWk

\* _stop_event.wait returns: the event is set or the time is over.
Wake(d) ==
    /\ wk[d].pc = "wait"
    /\ ~Waiting(wk[d])
    /\ wk' = [wk EXCEPT ![d].pc = "test", ![d].left = 0]
    /\ UNCHANGED notWk

\* The steps of the thread of d.
DaemonRun(d) ==
    \/ DaemonTest(d)
    \/ d = "summarizer" /\ (SummarizerCount \/ SummarizerSummarize)
    \/ d = "heartbeat" /\ (PulseRouter \/ PulseCompanion)
    \/ Tick(d)
    \/ Wake(d)

WorkersNext ==
    \/ \E d \in Daemons : DaemonStart(d)
    \/ \E d \in Daemons : DaemonStop(d)
    \/ \E d \in Daemons : DaemonTest(d)
    \/ SummarizerCount
    \/ SummarizerSummarize
    \/ PulseRouter
    \/ PulseCompanion
    \/ \E d \in Daemons : Tick(d)
    \/ \E d \in Daemons : Wake(d)

\* A started thread that can take a step is scheduled, and every call inside a
\* cycle returns or raises within its timeout.
WorkersFairness == \A d \in Daemons : WF_vars(DaemonRun(d))

SpecWorkers == WorkersInit /\ [][WorkersNext]_vars /\ WorkersFairness

\* C35: a worker whose stop event is set terminates; once the event is set, a
\* worker that is not inside a cycle starts none, and a worker in its wait
\* lets no tick pass and can return from the wait.
C35_StopTerminates ==
    /\ \A d \in Daemons : (wk[d].stop_event ~> (wk[d].pc = "terminated"))
    /\ [][\A d \in Daemons :
            (wk[d].stop_event /\ wk[d].pc \notin CyclePcs) => (wk'[d].pc \notin CyclePcs)]_vars
    /\ [][\A d \in Daemons :
            (wk[d].stop_event /\ wk[d].pc = "wait" /\ wk'[d].pc = "wait") =>
                (wk'[d].left = wk[d].left)]_vars
    /\ [](\A d \in Daemons :
            (wk[d].stop_event /\ wk[d].pc = "wait") => ENABLED Wake(d))

\* C35 witness: both workers have terminated, the summarizer stopped after two
\* cycles, the heartbeat after one.
C35_Witness ==
    /\ wk["summarizer"].pc = "terminated"
    /\ wk["summarizer"].cycles = 2
    /\ wk["heartbeat"].pc = "terminated"
    /\ wk["heartbeat"].cycles = 1

\* The steps of the pipeline thread r before its finally clause.
PipelineThread(r) ==
    \/ StageSpec(r)
    \/ StageArchitect(r)
    \/ StageBuild(r)
    \/ StageReview(r)
    \/ WriteBegin(r)
    \/ WriteFile(r)
    \/ WriteEnd(r)
    \/ Summary(r)
    \/ Callback(r)

\* The pipeline thread, of which there is one at a time, is scheduled when it
\* can take a step: every request of a stage has a timeout, and the lock its
\* finally clause waits for is held by a caller for the time of a warm-up only.
\* A caller inside run_pipeline goes on to its return.
PipelineFairness ==
    /\ WF_vars(\E r \in RunIds : PipelineThread(r) \/ Finally(r))
    /\ WF_vars(\E c \in Callers : RunPipelineCreate(c) \/ RunPipelineStart(c))

SpecPipelineFair == PipelineInit /\ [][PipelineNext]_vars /\ PipelineFairness

\* C36: whenever is_pipeline_running would answer True it later would answer
\* False; the slot holds a thread that has not ended, and the step that ends
\* a thread empties the slot, whether or not a stage or the callback raised;
\* with the slot empty a run_pipeline call that takes the lock goes on to
\* launch.
C36_SlotReleased ==
    /\ IsPipelineRunning ~> ~IsPipelineRunning
    /\ [](IsPipelineRunning => Live(active))
    /\ [][\A r \in RunIds :
            (Live(r) /\ runs'[r].pc = "done") => (active' = 0 /\ ~IsPipelineRunning')]_vars
    /\ [][\A c \in Callers :
            (cmd[c].pc = "rp_enter" /\ cmd'[c].pc # "rp_enter" /\ active = 0) =>
                (cmd'[c].pc = "rp_create")]_vars

\* C36 witness: a second pipeline has been launched after a first one in which
\* a stage or the callback raised.
C36_Witness ==
    /\ runs[1].pc = "done"
    /\ runs[1].raised
    /\ active = 2
    /\ runs[2].pc = "spec"
    /\ \E c \in Callers : cmd[c].ret = "true"

\* ---------------------------------------------------------------------------
\* Profile-learner threads: save_fact statement by statement
\* ---------------------------------------------------------------------------

notLt == <<pvars, store, turn, summaries, sess, tasks, learn, ctx, san, fs,
           route, web, pipe, chat, call, wk>>

\* The user_profile tables the threads may find: empty, or one fact of the
\* default confidence.
InitialProfiles ==
    {<<>>, <<[category |-> "name", key |-> "name", value |-> "Alex", confidence |-> 5]>>}

\* The stored confidence of (category, key), -1 without a row.
StoredConfidence(pr, category, key) ==
    LET existing == Existing(pr, category, key, 1)
    IN  IF existing = 0 THEN -1 ELSE pr[existing].confidence

LearnersInit ==
    /\ lock = "free"
    /\ active = 0
    /\ mode = "companion"
    /\ cmd = [c \in Callers |-> IdleCmd]
    /\ runs = [r \in RunIds |-> NewThread]
    /\ nextRun = 0
    /\ obs = [seen |-> FALSE, val |-> FALSE, live |-> FALSE]
    /\ store = <<>>
    /\ turn = NoTurn
    /\ summaries = <<>>
    /\ sess = NoSess
    /\ tasks = <<>>
    /\ learn = NoLearn
    /\ ctx = NoCtx
    /\ san = NoSan
    /\ fs = NoFs
    /\ route = NoRoute
    /\ web = NoWeb
    /\ pipe = NoPipe
    /\ chat = NoChat
    /\ call = NoCall
    /\ wk = [d \in {"summarizer", "heartbeat"} |-> NoDaemon]
    /\ profile \in InitialProfiles
    /\ lt = [t \in Learners |-> NoLearner]

\* ProfileLearnerWorker.tick, lines 325-331, and learn_from_conversation, line
\* 212: a detached thread calls save_fact for a fact the model extracted.
LearnerCall(t) ==
    /\ lt[t].pc = "none"
    /\ \E k \in FactKeys, value \in FactValues, confidence \in Confidences :
          lt' = [lt EXCEPT ![t] = [NoLearner EXCEPT !.pc = "called", !.category = k[1],
                                      !.key = k[2], !.value = value,
                                      !.confidence = confidence]]
    /\ UNCHANGED <<profile, notLt>>

\* save_fact, lines 114-117: the SELECT, outside any transaction.
LearnerSelect(t) ==
    /\ lt[t].pc = "called"
    /\ lt' = [lt EXCEPT ![t].pc = "selected",
                        ![t].existing = StoredConfidence(profile, lt[t].category, lt[t].key)]
    /\ UNCHANGED <<profile, notLt>>

\* save_fact, lines 119-132: with a row seen, the UPDATE when the confidence is
\* not lower than the one read; without, the INSERT, which the UNIQUE
\* constraint refuses (IntegrityError) when the row is there by now; then the
\* commit. before is the stored confidence when the statement runs.
LearnerWrite(t) ==
    /\ lt[t].pc = "selected"
    /\ LET th == lt[t]
           row == Existing(profile, th.category, th.key, 1)
           before == StoredConfidence(profile, th.category, th.key)
       IN  IF th.existing # -1
           THEN /\ profile' =
                     IF Overwrites(th.confidence, th.existing) /\ row # 0
                     THEN [profile EXCEPT ![row] = [@ EXCEPT !.value = th.value,
                                                             !.confidence = th.confidence]]
                     ELSE profile
                /\ lt' = [lt EXCEPT ![t].pc = "returned", ![t].before = before]
           ELSE IF row # 0
                THEN /\ lt' = [lt EXCEPT ![t].pc = "raised", ![t].before = before]
                     /\ UNCHANGED profile
                ELSE /\ profile' = Append(profile,
                                          [category |-> th.category, key |-> th.key,
                                           value |-> th.value,
                                           confidence |-> th.confidence])
                     /\ lt' = [lt EXCEPT ![t].pc = "returned", ![t].before = before]
    /\ UNCHANGED notLt

LearnersNext ==
    \/ \E t \in Learners : LearnerCall(t)
    \/ \E t \in Learners : LearnerSelect(t)
    \/ \E t \in Learners : LearnerWrite(t)

SpecLearners == LearnersInit /\ [][LearnersNext]_vars

\* C37: no save_fact call of a learner thread raises, and no step lowers the
\* stored confidence of a (category, key).
C37_ConfidenceNeverDecreases ==
    /\ [](\A t \in Learners : lt[t].pc # "raised")
    /\ [][\A k \in FactKeys :
            StoredConfidence(profile', k[1], k[2]) >= StoredConfidence(profile, k[1], k[2])]_vars

\* The model key of a category and a cloud availability, the mode left out.
KeyOf(category, cloud_ok) ==
    CASE category = "companion" -> "companion"
      [] category = "code_simple" -> "fast_code"
      [] category = "code_complex" -> "worker_heavy"
      [] category = "cloud" -> (IF cloud_ok THEN "cloud" ELSE "worker_heavy")
      [] category = "code_beast" -> (IF cloud_ok THEN "cloud" ELSE "beast")

ArtifactsNonEmpty(p) == p.spec_ok /\ p.plan_ok /\ p.results # {}

\* C40: the success flag the callback is given is True exactly when the spec,
\* the plan and the map of built files were all non-empty, whatever the review
\* verdict, however many files the write phase wrote (none when output_dir
\* was refused) and whether or not the workers' answers were error texts.
C40_SuccessFlag ==
    /\ (pipe.pc = "callback") =>
          ((pipe.result = "success") <=> ArtifactsNonEmpty(pipe))
    /\ (pipe.reported # "") =>
          /\ pipe.reported = pipe.result
          /\ (pipe.reported = "success") <=> ArtifactsNonEmpty(pipe)

\* The callback was given True after a review that said fix_needed and a write
\* phase that refused output_dir and wrote nothing, every file of the map
\* holding an error text.
C40_Witness ==
    /\ pipe.pc = "done"
    /\ pipe.reported = "success"
    /\ pipe.review = "fix_needed"
    /\ pipe.phase = "write"
    /\ ~pipe.dir_ok
    /\ pipe.written = 0
    /\ pipe.results # {}
    /\ pipe.errors

====
